---- MODULE Spec2Model ----
(***************************************************************************)
(* Trending-topics dashboard, server core: CacheService (key store with    *)
(* hit/miss/error counters), TrendingService (cache-first orchestration,   *)
(* refresh, per-section retention) and the individual-keyword path of      *)
(* OpenAIService.  Times are milliseconds, as Date.getTime() returns them. *)
(***************************************************************************)
EXTENDS Integers, Sequences, FiniteSets, TLC

VARIABLES now, redisClient, useRedis, nodeCache, redis, stats,
          pc, call, response, lastSet, ncalls, ttlIn, ttlOut, inflight, performed,
          parseIn, parseOut, fetchIn, fetchOut,
          manualRefreshEnabled, refreshCache, refreshLog

vars == <<now, redisClient, useRedis, nodeCache, redis, stats,
          pc, call, response, lastSet, ncalls, ttlIn, ttlOut, inflight, performed,
          parseIn, parseOut, fetchIn, fetchOut,
          manualRefreshEnabled, refreshCache, refreshLog>>

(***************************************************************************)
(* Bounds of the model                                                     *)
(***************************************************************************)
MaxClock == 3
MaxCalls == 2
MaxReq == 2
MaxProcs == 2
MaxCacheCalls == 4

\* the clock advances in steps of one hour
TickMs == 60 * 60 * 1000

(***************************************************************************)
(* Program constants (config/base.json "limits")                           *)
(***************************************************************************)
maxKeywords == 10
cacheDurationHours == 2
maxResultsPerKeyword == 10

(***************************************************************************)
(* Keywords are strings, modelled as sequences of characters               *)
(***************************************************************************)
KwLowerAi == <<"a", "i">>
KwUpperAi == <<"A", "I">>
KwX == <<"x">>
Keywords == {KwLowerAi, KwUpperAi, KwX}

toLowerCase(c) ==
  CASE c = "A" -> "a"
    [] c = "I" -> "i"
    [] c = "X" -> "x"
    [] OTHER -> c

isWhitespace(c) == c \in {" ", "\t", "\n"}

\* keyword.replace(/\s+/g, '_'): every maximal run of whitespace becomes one "_"
RECURSIVE replaceWhitespace(_)
replaceWhitespace(s) ==
  IF s = <<>> THEN <<>>
  ELSE IF isWhitespace(Head(s))
       THEN IF Len(s) > 1 /\ isWhitespace(s[2])
            THEN replaceWhitespace(Tail(s))
            ELSE <<"_">> \o replaceWhitespace(Tail(s))
       ELSE <<Head(s)>> \o replaceWhitespace(Tail(s))

getCacheKey(keyword) ==
  <<"trending:">> \o replaceWhitespace([i \in 1..Len(keyword) |-> toLowerCase(keyword[i])])

CacheKeys == {getCacheKey(k) : k \in Keywords}

(***************************************************************************)
(* Retention                                                               *)
(***************************************************************************)
Undefined == [value |-> 0, unit |-> "undefined"]
Retention(v, u) == [value |-> v, unit |-> u]

Max(a, b) == IF a > b THEN a ELSE b
Min(a, b) == IF a < b THEN a ELSE b

\* mutation: the lower clamp Math.max(1, ...) left out
calculateTtlSeconds_noLowerClamp(cacheRetention) ==
  IF cacheRetention.unit = "hour"
  THEN Min(168, cacheRetention.value) * 3600
  ELSE Min(7, cacheRetention.value) * 24 * 3600

calculateTtlSeconds(cacheRetention) ==
  IF cacheRetention.unit = "hour"
  THEN Max(1, Min(168, cacheRetention.value)) * 3600
  ELSE Max(1, Min(7, cacheRetention.value)) * 24 * 3600

(***************************************************************************)
(* TrendingData values and their serialized form                           *)
(***************************************************************************)
Null == [kind |-> "null"]

TrendingData(keyword, topics, lastUpdated, cached) ==
  [kind |-> "data", keyword |-> keyword, topics |-> topics,
   lastUpdated |-> lastUpdated, cached |-> cached]

\* A Date is [ms |-> n]; its JSON form is the ISO string [iso |-> n].
\* new Date(x) accepts either and yields a Date.
Date(ms) == [ms |-> ms]
toISOString(d) == [iso |-> d.ms]
newDate(x) == IF "iso" \in DOMAIN x THEN [ms |-> x.iso] ELSE x
getTime(d) == d.ms

JSONstringify(data) ==
  [kind |-> "json", keyword |-> data.keyword, topics |-> data.topics,
   lastUpdated |-> toISOString(data.lastUpdated), cached |-> data.cached]

\* a stored string that is not the JSON text of a TrendingData
Undecodable == [kind |-> "garbage"]

\* JSON.parse(cached) followed by data.lastUpdated: throws on such a string
decodes(str) == str.kind = "json"

JSONparse(str) ==
  [kind |-> "data", keyword |-> str.keyword, topics |-> str.topics,
   lastUpdated |-> str.lastUpdated, cached |-> str.cached]

Entry(v, t) == [kind |-> "entry", v |-> v, t |-> t]

\* node-cache: a key is dropped once its expiry instant lies in the past
nodeCacheGet(store, key, t) ==
  IF store[key] = Null \/ store[key].t < t THEN Null ELSE store[key].v

\* Redis: a key set with SETEX is gone once its seconds have elapsed
redisGet(store, key, t) ==
  IF store[key] = Null \/ store[key].t <= t THEN Null ELSE store[key].v

(***************************************************************************)
(* CacheService; cs = [useRedis, nodeCache, redis, stats].  rejects tells  *)
(* whether the Redis command the call awaits is rejected by the client.    *)
(***************************************************************************)
Bump(cs, counter) == [cs EXCEPT !.stats[counter] = @ + 1]

\* mutation: get without its try/catch, a rejected Redis command propagates
CacheService_get_uncaught(cs, t, keyword, rejects) ==
  LET key == getCacheKey(keyword) IN
  IF cs.useRedis
  THEN IF rejects
       THEN [value |-> Null, cs |-> cs, threw |-> TRUE]
       ELSE LET cached == redisGet(cs.redis, key, t) IN
            IF cached # Null
            THEN IF ~decodes(cached)
                 THEN [value |-> Null, cs |-> Bump(cs, "hits"), threw |-> TRUE]
                 ELSE LET data == JSONparse(cached) IN
                      [value |-> [data EXCEPT !.lastUpdated = newDate(data.lastUpdated)],
                       cs |-> Bump(cs, "hits"), threw |-> FALSE]
            ELSE [value |-> Null, cs |-> Bump(cs, "misses"), threw |-> FALSE]
  ELSE LET cached == nodeCacheGet(cs.nodeCache, key, t) IN
       IF cached # Null
       THEN [value |-> cached, cs |-> Bump(cs, "hits"), threw |-> FALSE]
       ELSE [value |-> Null, cs |-> Bump(cs, "misses"), threw |-> FALSE]

CacheService_get(cs, t, keyword, rejects) ==
  LET key == getCacheKey(keyword) IN
  IF cs.useRedis
  THEN IF rejects
       THEN [value |-> Null, cs |-> Bump(cs, "errors"), threw |-> FALSE]
       ELSE LET cached == redisGet(cs.redis, key, t) IN
            IF cached # Null
            THEN IF ~decodes(cached)
                 THEN \* this.stats.hits++ has run when JSON.parse throws
                      [value |-> Null, cs |-> Bump(Bump(cs, "hits"), "errors"),
                       threw |-> FALSE]
                 ELSE LET data == JSONparse(cached) IN
                      [value |-> [data EXCEPT !.lastUpdated = newDate(data.lastUpdated)],
                       cs |-> Bump(cs, "hits"), threw |-> FALSE]
            ELSE [value |-> Null, cs |-> Bump(cs, "misses"), threw |-> FALSE]
  ELSE LET cached == nodeCacheGet(cs.nodeCache, key, t) IN
       IF cached # Null
       THEN [value |-> cached, cs |-> Bump(cs, "hits"), threw |-> FALSE]
       ELSE [value |-> Null, cs |-> Bump(cs, "misses"), threw |-> FALSE]

CacheService_set(cs, t, keyword, data, rejects) ==
  LET key == getCacheKey(keyword)
      cacheData == [data EXCEPT !.cached = TRUE]
  IN
  IF cs.useRedis
  THEN IF rejects
       THEN [cs |-> cs, threw |-> FALSE]
       ELSE [cs |-> [cs EXCEPT !.redis[key] =
                       Entry(JSONstringify(cacheData), t + cacheDurationHours * 3600 * 1000)],
             threw |-> FALSE]
  ELSE [cs |-> [cs EXCEPT !.nodeCache[key] =
                  Entry(cacheData, t + cacheDurationHours * 3600 * 1000)],
        threw |-> FALSE]

\* mutation: delete empties the whole store, as clear does
CacheService_delete_flushesAll(cs, keyword, rejects) ==
  IF cs.useRedis
  THEN IF rejects THEN [cs |-> cs, threw |-> FALSE]
       ELSE [cs |-> [cs EXCEPT !.redis = [k \in CacheKeys |-> Null]], threw |-> FALSE]
  ELSE [cs |-> [cs EXCEPT !.nodeCache = [k \in CacheKeys |-> Null]], threw |-> FALSE]

\* redisClient.del(key) or nodeCache.del(key); an error is logged and swallowed
CacheService_delete(cs, keyword, rejects) ==
  LET key == getCacheKey(keyword) IN
  IF cs.useRedis
  THEN IF rejects THEN [cs |-> cs, threw |-> FALSE]
       ELSE [cs |-> [cs EXCEPT !.redis[key] = Null], threw |-> FALSE]
  ELSE [cs |-> [cs EXCEPT !.nodeCache[key] = Null], threw |-> FALSE]

\* redisClient.keys('trending:*') and del(keys), or nodeCache.flushAll()
CacheService_clear(cs, rejects) ==
  IF cs.useRedis
  THEN IF rejects THEN [cs |-> cs, threw |-> FALSE]
       ELSE [cs |-> [cs EXCEPT !.redis = [k \in CacheKeys |-> Null]], threw |-> FALSE]
  ELSE [cs |-> [cs EXCEPT !.nodeCache = [k \in CacheKeys |-> Null]], threw |-> FALSE]

\* for (const keyword of keywords) { data = await this.get(keyword); ... }
\* returns the values found, one per position (Null where get returned null)
RECURSIVE CacheService_getMultiple(_, _, _, _)
CacheService_getMultiple(cs, t, keywords, rejects) ==
  IF keywords = <<>>
  THEN [values |-> <<>>, cs |-> cs, threw |-> FALSE]
  ELSE LET n == Len(keywords)
           before == CacheService_getMultiple(cs, t, SubSeq(keywords, 1, n - 1), rejects)
           got == CacheService_get(before.cs, t, keywords[n], rejects[n])
       IN IF before.threw
          THEN before
          ELSE [values |-> Append(before.values, got.value), cs |-> got.cs,
                threw |-> got.threw]

\* for (const [keyword, data] of dataMap) promises.push(this.set(keyword, data))
\* dataMap is given as the sequence of its entries in insertion order
RECURSIVE CacheService_setMultiple(_, _, _, _)
CacheService_setMultiple(cs, t, entries, rejects) ==
  IF entries = <<>>
  THEN [cs |-> cs, threw |-> FALSE]
  ELSE LET n == Len(entries)
           before == CacheService_setMultiple(cs, t, SubSeq(entries, 1, n - 1), rejects)
           done == CacheService_set(before.cs, t, entries[n].keyword, entries[n], rejects[n])
       IN [cs |-> done.cs, threw |-> before.threw \/ done.threw]

(***************************************************************************)
(* OpenAIService, individual path.  The provider's behaviour for one       *)
(* keyword is an input: what the Responses API call does, what the Chat    *)
(* Completions fallback does, and whether the text returned parses.        *)
(***************************************************************************)
Topic(title, keyword) == [title |-> title, keyword |-> keyword]

\* what the provider's text holds when it is well-formed JSON
WebTopics(keyword) == <<Topic("Web story one", keyword), Topic("Web story two", keyword)>>
ChatTopics(keyword) == <<Topic("Chat story one", keyword)>>

Behaviour(web, chat, text) == [web |-> web, chat |-> chat, text |-> text]

Behaviours ==
  { Behaviour("ok", "unused", "json"), Behaviour("ok", "unused", "garbage"),
    Behaviour("error", "ok", "json"), Behaviour("error", "error", "none"),
    Behaviour("hang", "unused", "none") }

\* a resolved call and a call that runs into its timeout
FewBehaviours ==
  { Behaviour("ok", "unused", "json"), Behaviour("hang", "unused", "none") }

\* title: `Latest ${keyword} Updates`
getFallbackTopics(keyword) == <<Topic("Latest Updates", keyword)>>

\* the repair pipeline always yields at least one topic: the topics it could
\* extract, or else its generic "Current ... Developments" topic
parseWebSearchResponse(text, extracted, keyword, maxResults) ==
  IF text = "json" THEN extracted ELSE <<Topic("Current Developments", keyword)>>

getChatCompletionFallback(b, keyword, maxResults) ==
  IF b.chat = "ok"
  THEN LET topics == parseWebSearchResponse(b.text, ChatTopics(keyword), keyword, maxResults) IN
       [threw |-> FALSE,
        topics |-> IF Len(topics) > 0 THEN topics ELSE getFallbackTopics(keyword)]
  ELSE [threw |-> TRUE, topics |-> <<>>]

\* settles unless a call it awaits hangs
getWebSearchTrendingTopics(b, keyword, maxResults) ==
  IF b.web = "ok"
  THEN [settled |-> TRUE, keyword |-> keyword,
        topics |-> parseWebSearchResponse(b.text, WebTopics(keyword), keyword, maxResults)]
  ELSE IF b.web = "hang" \/ b.chat = "hang"
  THEN [settled |-> FALSE, keyword |-> keyword, topics |-> <<>>]
  ELSE LET fb == getChatCompletionFallback(b, keyword, maxResults) IN
       IF ~fb.threw
       THEN [settled |-> TRUE, keyword |-> keyword, topics |-> fb.topics]
       ELSE [settled |-> TRUE, keyword |-> keyword, topics |-> <<Topic("Unable to fetch", keyword)>>]

\* mutation: a failed web-search call is issued a second time
externalCalls_retried(b) ==
  IF b.web = "error"
  THEN <<"responses.create", "responses.create", "chat.completions.create">>
  ELSE <<"responses.create">>

\* the provider calls getWebSearchTrendingTopics issues for one keyword: the
\* web search, and the Chat Completions call of its catch
externalCalls(b) ==
  IF b.web = "error"
  THEN <<"responses.create", "chat.completions.create">>
  ELSE <<"responses.create">>

\* Promise.race of the call against a timer that rejects after timeoutMs
withTimeout(promise) ==
  IF promise.settled
  THEN [rejected |-> FALSE, value |-> [keyword |-> promise.keyword, topics |-> promise.topics]]
  ELSE [rejected |-> TRUE, value |-> Null]

\* mutation: the arrow without its try/catch, so a timeout rejects the task
KeywordTask_uncaught(b, keyword, maxResults) ==
  withTimeout(getWebSearchTrendingTopics(b, keyword, maxResults))

\* the async arrow mapped over keywords: one KeywordTopics per keyword
KeywordTask(b, keyword, maxResults) ==
  LET r == withTimeout(getWebSearchTrendingTopics(b, keyword, maxResults)) IN
  IF r.rejected
  THEN [rejected |-> FALSE, value |-> [keyword |-> keyword, topics |-> getFallbackTopics(keyword)]]
  ELSE r

\* mutation: keywords whose call ran into the timeout are left out
OpenAIService_getTrendingTopics_dropsTimedOut(tasks) ==
  LET kept == SelectSeq(tasks, LAMBDA x : x.value.topics # getFallbackTopics(x.value.keyword))
  IN [threw |-> FALSE, value |-> [i \in 1..Len(kept) |-> kept[i].value]]

\* Promise.all over the per-keyword tasks; tasks is the sequence of settled tasks
OpenAIService_getTrendingTopics(tasks) ==
  IF \E i \in 1..Len(tasks) : tasks[i].rejected
  THEN [threw |-> TRUE, value |-> <<>>]
  ELSE [threw |-> FALSE, value |-> [i \in 1..Len(tasks) |-> tasks[i].value]]

(***************************************************************************)
(* TrendingService                                                         *)
(***************************************************************************)
Section(keyword, cacheRetention) == [keyword |-> keyword, cacheRetention |-> cacheRetention]

isCacheValid(data, t) ==
  LET cacheAge == t - getTime(newDate(data.lastUpdated))
      maxAge == cacheDurationHours * 60 * 60 * 1000
  IN cacheAge < maxAge

\* mutation: cacheAge <= maxAge
isCacheValidWithCustomRetention_inclusive(data, cacheRetention, t) ==
  LET cacheAge == t - getTime(newDate(data.lastUpdated))
      maxAge == IF cacheRetention # Undefined
                THEN calculateTtlSeconds(cacheRetention) * 1000
                ELSE cacheDurationHours * 60 * 60 * 1000
  IN cacheAge <= maxAge

isCacheValidWithCustomRetention(data, cacheRetention, t) ==
  LET cacheAge == t - getTime(newDate(data.lastUpdated))
      maxAge == IF cacheRetention # Undefined
                THEN calculateTtlSeconds(cacheRetention) * 1000
                ELSE cacheDurationHours * 60 * 60 * 1000
  IN cacheAge < maxAge

getFallbackData(keyword, t) ==
  TrendingData(keyword, <<Topic("Topics Unavailable", keyword)>>, Date(t), FALSE)

\* mutation: the slice left out
Take_all(s, n) == s

Take(s, n) == SubSeq(s, 1, Min(n, Len(s)))

\* fetchFreshData once the provider calls have settled
fetchFreshData(keywords, tasks, t) ==
  LET r == OpenAIService_getTrendingTopics(tasks) IN
  IF r.threw
  THEN [i \in 1..Len(keywords) |-> getFallbackData(keywords[i], t)]
  ELSE [i \in 1..Len(r.value) |->
          TrendingData(r.value[i].keyword, Take(r.value[i].topics, maxResultsPerKeyword),
                       Date(t), FALSE)]

\* keywords.indexOf(k), -1 when absent
indexOf(keywords, k) ==
  IF \E i \in 1..Len(keywords) : keywords[i] = k
  THEN (CHOOSE i \in 1..Len(keywords) :
          keywords[i] = k /\ \A j \in 1..(i - 1) : keywords[j] # k) - 1
  ELSE -1

\* results.sort((a, b) => keywords.indexOf(a.keyword) - keywords.indexOf(b.keyword))
\* Array.prototype.sort is stable
RECURSIVE sortByKeywordIndex(_, _)
sortByKeywordIndex(results, keywords) ==
  IF Len(results) <= 1 THEN results
  ELSE LET n == Len(results)
           front == sortByKeywordIndex(SubSeq(results, 1, n - 1), keywords)
           last == results[n]
           k == indexOf(keywords, last.keyword)
           before == {i \in 1..(n - 1) : indexOf(keywords, front[i].keyword) <= k}
           p == IF before = {} THEN 0 ELSE CHOOSE i \in before : \A j \in before : j <= i
       IN SubSeq(front, 1, p) \o <<last>> \o SubSeq(front, p + 1, n - 1)

KeywordsOf(sections) == [i \in 1..Len(sections) |-> sections[i].keyword]

\* the cache-check loop: which positions are served from the cache
HitPositions(sections, values, withRetention, t) ==
  {i \in 1..Len(sections) :
     /\ values[i] # Null
     /\ IF withRetention
        THEN isCacheValidWithCustomRetention(values[i], sections[i].cacheRetention, t)
        ELSE isCacheValid(values[i], t)}

\* the elements of 1..n that lie in S, in increasing order
RECURSIVE Ascending(_, _)
Ascending(S, n) ==
  IF n = 0 THEN <<>>
  ELSE IF n \in S THEN Append(Ascending(S, n - 1), n) ELSE Ascending(S, n - 1)

\* mutation: the push without its else, every keyword is handed to the fetch
UncachedPositions_all(hits, n) == Ascending(1..n, n)

\* the else branch of the cache-check loop: uncachedKeywords.push(keyword)
UncachedPositions(hits, n) == Ascending((1..n) \ hits, n)

Select(seq, positions) == [j \in 1..Len(positions) |-> seq[positions[j]]]

\* new Map filled with cacheMap.set(data.keyword, data): one entry per keyword,
\* at the position of the keyword's first insertion, holding its last value
RECURSIVE MapEntries(_)
MapEntries(freshData) ==
  IF freshData = <<>> THEN <<>>
  ELSE LET n == Len(freshData)
           front == MapEntries(SubSeq(freshData, 1, n - 1))
           last == freshData[n]
       IN IF \E i \in 1..Len(front) : front[i].keyword = last.keyword
          THEN [i \in 1..Len(front) |->
                  IF front[i].keyword = last.keyword THEN last ELSE front[i]]
          ELSE Append(front, last)

(***************************************************************************)
(* Inputs                                                                  *)
(***************************************************************************)
Retentions == {Undefined, Retention(1, "hour"), Retention(1, "day")}
FewKeywords == {KwX, KwUpperAi}

DuplicateFree(seq) == \A i, j \in 1..Len(seq) : i # j => seq[i] # seq[j]

\* requests of at most MaxReq entries, duplicates removed by the caller
KeywordLists(K) ==
  {kws \in UNION {[1..m -> K] : m \in 0..MaxReq} : DuplicateFree(kws)}

SectionLists(K, R) ==
  {secs \in UNION {[1..m -> {Section(k, r) : k \in K, r \in R}] : m \in 0..MaxReq} :
     DuplicateFree(KeywordsOf(secs))}

\* a request of maxKeywords + 1 entries
TooManyKeywords == [i \in 1..(maxKeywords + 1) |-> KwX]

PlainSections(keywords) == [i \in 1..Len(keywords) |-> Section(keywords[i], Undefined)]

\* mutation: the length check left out
exceedsMaxKeywords_never(n) == FALSE

\* keywords.length > APP_LIMITS.maxKeywords
exceedsMaxKeywords(n) == n > maxKeywords

(***************************************************************************)
(* State                                                                   *)
(***************************************************************************)
Pending == [kind |-> "pending"]
NoCall == [op |-> "none"]
NoResponse == [op |-> "none"]
\* parseWebSearchResponse has not been called, or not yet returned
NoContent == [kind |-> "none"]
NotParsed == [kind |-> "none"]

\* OpenAIService.getTrendingTopics has not been called, or not yet mapped the
\* keywords to calls
NoFetch == [kind |-> "none"]
NotFetched == <<[kind |-> "none"]>>

NeverSet == [kind |-> "never"]

\* callers of CacheService whose call may be suspended at an await
Procs == 1..MaxProcs
Idle == [kind |-> "idle"]
Counters == {"hits", "misses", "errors"}

CS == [useRedis |-> useRedis, nodeCache |-> nodeCache, redis |-> redis, stats |-> stats]

Commit(cs) == nodeCache' = cs.nodeCache /\ redis' = cs.redis /\ stats' = cs.stats

\* which of n awaited Redis commands are rejected; node-cache calls cannot be
RejectPatterns(n) ==
  IF useRedis THEN [1..n -> BOOLEAN] ELSE {[i \in 1..n |-> FALSE]}

\* the clients of the refresh route and the days the model's clock covers;
\* refreshCache holds, per key refresh_<ip>_<day>, the count and the instant
\* its TTL ends
ClientIps == {"10.0.0.1", "10.0.0.2"}
MaxDay == 2
RefreshKey(clientIp, today) == [clientIp |-> clientIp, today |-> today]
RefreshKeys == {RefreshKey(ip, day) : ip \in ClientIps, day \in 0..MaxDay}
NoCount == [kind |-> "absent"]
Count(v, t) == [kind |-> "count", v |-> v, t |-> t]

\* after construction; client is the Redis client initializeRedis has created
\* ("connecting", when config.nodeEnv is 'production') or not ("null")
InitWith(client) ==
  /\ now = 0
  /\ redisClient = client
  /\ useRedis = FALSE
  /\ nodeCache = [k \in CacheKeys |-> Null]
  /\ redis = [k \in CacheKeys |-> Null]
  /\ stats = [hits |-> 0, misses |-> 0, errors |-> 0]
  /\ pc = "idle"
  /\ call = NoCall
  /\ response = NoResponse
  /\ lastSet = [k \in CacheKeys |-> NeverSet]
  /\ ncalls = 0
  /\ ttlOut = 0
  /\ inflight = [p \in Procs |-> Idle]
  /\ performed = [c \in Counters |-> 0]
  /\ parseOut = NotParsed
  /\ fetchOut = NotFetched
  /\ manualRefreshEnabled = FALSE
  /\ refreshCache = [key \in RefreshKeys |-> NoCount]
  /\ refreshLog = <<>>

(***************************************************************************)
(* Environment                                                             *)
(***************************************************************************)
SweepNodeCache(store, t) ==
  [k \in CacheKeys |-> IF nodeCacheGet(store, k, t) = Null THEN Null ELSE store[k]]

SweepRedis(store, t) ==
  [k \in CacheKeys |-> IF redisGet(store, k, t) = Null THEN Null ELSE store[k]]

\* time passes; expired keys leave the stores (node-cache checkperiod, Redis expiry)
Tick ==
  /\ now < MaxClock * TickMs
  /\ now' = now + TickMs
  /\ nodeCache' = SweepNodeCache(nodeCache, now')
  /\ redis' = SweepRedis(redis, now')
  /\ UNCHANGED <<redisClient, useRedis, stats, pc, call, response, lastSet,
                 ncalls, ttlIn, ttlOut, inflight, performed,
                 parseIn, parseOut, fetchIn, fetchOut,
                 manualRefreshEnabled, refreshCache, refreshLog>>

\* initializeRedis: await connect() resolves
RedisConnected ==
  /\ redisClient = "connecting"
  /\ redisClient' = "ready"
  /\ useRedis' = TRUE
  /\ UNCHANGED <<now, nodeCache, redis, stats, pc, call, response, lastSet,
                 ncalls, ttlIn, ttlOut, inflight, performed,
                 parseIn, parseOut, fetchIn, fetchOut,
                 manualRefreshEnabled, refreshCache, refreshLog>>

\* initializeRedis: connect() rejects, or the client emits 'error'
RedisClientError ==
  /\ redisClient \in {"connecting", "ready"}
  /\ redisClient' = "failed"
  /\ useRedis' = FALSE
  /\ UNCHANGED <<now, nodeCache, redis, stats, pc, call, response, lastSet,
                 ncalls, ttlIn, ttlOut, inflight, performed,
                 parseIn, parseOut, fetchIn, fetchOut,
                 manualRefreshEnabled, refreshCache, refreshLog>>

\* the Redis server is shared: the string under a key is replaced by one this
\* service did not write
RedisForeignWrite ==
  /\ \E k \in CacheKeys :
       /\ redis[k] # Null
       /\ redis[k].v # Undecodable
       /\ redis' = [redis EXCEPT ![k].v = Undecodable]
  /\ UNCHANGED <<now, redisClient, useRedis, nodeCache, stats, pc, call, response,
                 lastSet, ncalls, ttlIn, ttlOut, inflight, performed,
                 parseIn, parseOut, fetchIn, fetchOut,
                 manualRefreshEnabled, refreshCache, refreshLog>>

(***************************************************************************)
(* TrendingService operations                                              *)
(***************************************************************************)
Returned(op, sections, status, results, c) ==
  [op |-> op, sections |-> sections, status |-> status, results |-> results,
   uncachedKeywords |-> <<>>, checkAt |-> c.checkAt, values |-> c.values,
   hits |-> c.hits, uncached |-> c.uncached, behaviours |-> c.behaviours,
   tasks |-> c.tasks, at |-> now, statsBefore |-> c.statsBefore]

NoLookup(n) ==
  [checkAt |-> now, values |-> [i \in 1..n |-> Null], hits |-> {}, uncached |-> <<>>,
   behaviours |-> <<>>, tasks |-> <<>>, statsBefore |-> stats]

\* the cache-first entry points from await getMultiple up to the first await
\* on the provider
ResolveLookup(op, sections, withRetention) ==
  LET n == Len(sections)
      keywords == KeywordsOf(sections)
  IN
  /\ UNCHANGED <<now, redisClient, useRedis, lastSet, ttlIn, ttlOut, inflight, performed,
                 parseIn, parseOut, fetchIn, fetchOut,
                 manualRefreshEnabled, refreshCache, refreshLog>>
  /\ IF n = 0
     THEN /\ response' = Returned(op, sections, "ok", <<>>, NoLookup(0))
          /\ pc' = "idle" /\ call' = NoCall
          /\ UNCHANGED <<nodeCache, redis, stats>>
     ELSE IF exceedsMaxKeywords(n)
     THEN /\ response' = Returned(op, sections, "TooManyKeywords", <<>>, NoLookup(n))
          /\ pc' = "idle" /\ call' = NoCall
          /\ UNCHANGED <<nodeCache, redis, stats>>
     ELSE \E rejects \in RejectPatterns(n) :
          LET got == CacheService_getMultiple(CS, now, keywords, rejects)
              hits == HitPositions(sections, got.values, withRetention, now)
              uncached == UncachedPositions(hits, n)
              results == Select(got.values, Ascending(hits, n))
              c == [op |-> op, sections |-> sections, checkAt |-> now,
                    values |-> got.values, hits |-> hits, uncached |-> uncached,
                    results |-> results,
                    behaviours |-> [j \in 1..Len(uncached) |-> Pending],
                    tasks |-> [j \in 1..Len(uncached) |-> Pending],
                    statsBefore |-> stats]
          IN /\ Commit(got.cs)
             /\ IF got.threw
                THEN /\ response' = Returned(op, sections, "Exception", <<>>, c)
                     /\ pc' = "idle" /\ call' = NoCall
                ELSE IF uncached = <<>>
                THEN /\ response' = Returned(op, sections, "ok",
                                             sortByKeywordIndex(results, keywords), c)
                     /\ pc' = "idle" /\ call' = NoCall
                ELSE /\ response' = NoResponse
                     /\ pc' = "fetching"
                     /\ call' = c

\* a call of a cache-first entry point, its lookup completing at once
ResolveBegin(op, sections, withRetention) ==
  /\ pc = "idle"
  /\ ncalls < MaxCalls
  /\ ncalls' = ncalls + 1
  /\ ResolveLookup(op, sections, withRetention)

getTrendingTopics(K) ==
  \E keywords \in KeywordLists(K) \cup {TooManyKeywords} :
    ResolveBegin("getTrendingTopics", PlainSections(keywords), FALSE)

getTrendingTopicsWithRetention(K, R) ==
  \E sections \in SectionLists(K, R) \cup {PlainSections(TooManyKeywords)} :
    ResolveBegin("getTrendingTopicsWithRetention", sections, TRUE)

\* the refresh entry points up to the first await on the provider
RefreshBegin(op, sections) ==
  LET n == Len(sections) IN
  /\ pc = "idle"
  /\ ncalls < MaxCalls
  /\ ncalls' = ncalls + 1
  /\ UNCHANGED <<now, redisClient, useRedis, nodeCache, redis, stats, lastSet,
                 ttlIn, ttlOut, inflight, performed,
                 parseIn, parseOut, fetchIn, fetchOut,
                 manualRefreshEnabled, refreshCache, refreshLog>>
  /\ IF n = 0
     THEN /\ response' = Returned(op, sections, "ok", <<>>, NoLookup(0))
          /\ UNCHANGED <<pc, call>>
     ELSE IF exceedsMaxKeywords(n)
     THEN /\ response' = Returned(op, sections, "TooManyKeywords", <<>>, NoLookup(n))
          /\ UNCHANGED <<pc, call>>
     ELSE /\ response' = NoResponse
          /\ pc' = "fetching"
          /\ call' = [op |-> op, sections |-> sections, checkAt |-> now,
                      values |-> [i \in 1..n |-> Null], hits |-> {},
                      uncached |-> [i \in 1..n |-> i], results |-> <<>>,
                      behaviours |-> [j \in 1..n |-> Pending],
                      tasks |-> [j \in 1..n |-> Pending],
                      statsBefore |-> stats]

refreshTopics(K) ==
  \E keywords \in KeywordLists(K) \cup {TooManyKeywords} :
    RefreshBegin("refreshTopics", PlainSections(keywords))

refreshTopicsWithRetention(K, R) ==
  \E sections \in SectionLists(K, R) \cup {PlainSections(TooManyKeywords)} :
    RefreshBegin("refreshTopicsWithRetention", sections)

\* one keyword's provider call settles, or its 25 s timer fires
KeywordTaskSettles(B) ==
  /\ pc = "fetching"
  /\ \E j \in 1..Len(call.tasks), b \in B :
       /\ call.tasks[j] = Pending
       /\ call' = [call EXCEPT
            !.tasks[j] = KeywordTask(b, call.sections[call.uncached[j]].keyword,
                                     maxResultsPerKeyword),
            !.behaviours[j] = b]
  /\ UNCHANGED <<now, redisClient, useRedis, nodeCache, redis, stats, pc,
                 response, lastSet, ncalls, ttlIn, ttlOut, inflight, performed,
                 parseIn, parseOut, fetchIn, fetchOut,
                 manualRefreshEnabled, refreshCache, refreshLog>>

AllSettled == \A j \in 1..Len(call.tasks) : call.tasks[j] # Pending

\* ttlMap: the TTL asked for each keyword that has a cacheRetention
\* (sectionMap keeps, per keyword, the last section carrying it)
SectionOf(sections, keyword) ==
  LET P == {i \in 1..Len(sections) : sections[i].keyword = keyword}
  IN sections[CHOOSE i \in P : \A j \in P : j <= i]

RequestedTtl(sections, keyword, withRetention) ==
  IF withRetention /\ SectionOf(sections, keyword).cacheRetention # Undefined
  THEN calculateTtlSeconds(SectionOf(sections, keyword).cacheRetention)
  ELSE cacheDurationHours * 3600

\* what was last handed to set for each cache key, and the TTL asked for it
Recorded(op, entries, sections, withRetention, rejects) ==
  [k \in CacheKeys |->
     LET P == {i \in 1..Len(entries) : getCacheKey(entries[i].keyword) = k} IN
     IF P = {} THEN lastSet[k]
     ELSE LET last == CHOOSE i \in P : \A j \in P : j <= i IN
          [kind |-> "set", by |-> op, at |-> now, data |-> entries[last],
           ttl |-> RequestedTtl(sections, entries[last].keyword, withRetention),
           redis |-> useRedis, accepted |-> \A i \in P : ~rejects[i]]]

\* the cache-first entry points from the return of fetchFreshData on
ResolveEnd(op, withRetention) ==
  /\ pc = "fetching"
  /\ call.op = op
  /\ AllSettled
  /\ LET keywords == KeywordsOf(call.sections)
         uncachedKeywords == Select(keywords, call.uncached)
         freshData == fetchFreshData(uncachedKeywords, call.tasks, now)
         entries == MapEntries(freshData)
     IN \E rejects \in RejectPatterns(Len(entries)) :
        LET written == CacheService_setMultiple(CS, now, entries, rejects)
            results == call.results \o freshData \o
                       (IF written.threw
                        THEN [j \in 1..Len(uncachedKeywords) |->
                                getFallbackData(uncachedKeywords[j], now)]
                        ELSE <<>>)
        IN /\ Commit(written.cs)
           /\ lastSet' = Recorded(op, entries, call.sections, withRetention, rejects)
           /\ response' = Returned(op, call.sections, "ok",
                                   sortByKeywordIndex(results, keywords), call)
  /\ pc' = "idle"
  /\ call' = NoCall
  /\ UNCHANGED <<now, redisClient, useRedis, ncalls, ttlIn, ttlOut, inflight, performed,
                 parseIn, parseOut, fetchIn, fetchOut,
                 manualRefreshEnabled, refreshCache, refreshLog>>

getTrendingTopicsReturns == ResolveEnd("getTrendingTopics", FALSE)
getTrendingTopicsWithRetentionReturns == ResolveEnd("getTrendingTopicsWithRetention", TRUE)

\* the refresh entry points from the return of fetchFreshData on
RefreshEnd(op, withRetention) ==
  /\ pc = "fetching"
  /\ call.op = op
  /\ AllSettled
  /\ LET keywords == KeywordsOf(call.sections)
         freshData == fetchFreshData(keywords, call.tasks, now)
         entries == MapEntries(freshData)
     IN \E rejects \in RejectPatterns(Len(entries)) :
        LET written == CacheService_setMultiple(CS, now, entries, rejects)
        IN /\ Commit(written.cs)
           /\ lastSet' = Recorded(op, entries, call.sections, withRetention, rejects)
           /\ response' = IF written.threw
                          THEN Returned(op, call.sections, "Exception", <<>>, call)
                          ELSE Returned(op, call.sections, "ok", freshData, call)
  /\ pc' = "idle"
  /\ call' = NoCall
  /\ UNCHANGED <<now, redisClient, useRedis, ncalls, ttlIn, ttlOut, inflight, performed,
                 parseIn, parseOut, fetchIn, fetchOut,
                 manualRefreshEnabled, refreshCache, refreshLog>>

refreshTopicsReturns == RefreshEnd("refreshTopics", FALSE)
refreshTopicsWithRetentionReturns == RefreshEnd("refreshTopicsWithRetention", TRUE)

\* what an invalidation leaves in lastSet: who removed the key, when, whether
\* the backend took the command, and the record that a get gave before
Removed(op, keyword, removed, accepted) ==
  [kind |-> "deleted", by |-> op, keyword |-> keyword, at |-> now,
   removed |-> removed, accepted |-> accepted]

\* DELETE /cache/:keyword
clearCacheByKeyword(K) ==
  \E keyword \in K : \E rejects \in RejectPatterns(1) :
    LET key == getCacheKey(keyword)
        held == CacheService_get(CS, now, keyword, FALSE).value
        done == CacheService_delete(CS, keyword, rejects[1])
    IN /\ nodeCache' = done.cs.nodeCache
       /\ redis' = done.cs.redis
       /\ lastSet' = [lastSet EXCEPT
                        ![key] = Removed("clearCacheByKeyword", keyword, held, ~rejects[1])]
       /\ UNCHANGED <<now, redisClient, useRedis, stats, pc, call, response, ncalls,
                      ttlIn, ttlOut, inflight, performed,
                      parseIn, parseOut, fetchIn, fetchOut,
                      manualRefreshEnabled, refreshCache, refreshLog>>

\* DELETE /cache
clearCache ==
  \E rejects \in RejectPatterns(1) :
    LET done == CacheService_clear(CS, rejects[1]) IN
    /\ nodeCache' = done.cs.nodeCache
    /\ redis' = done.cs.redis
    /\ lastSet' = [k \in CacheKeys |->
                     Removed("clearCache", <<>>,
                             IF useRedis THEN redisGet(redis, k, now)
                             ELSE nodeCacheGet(nodeCache, k, now), ~rejects[1])]
    /\ UNCHANGED <<now, redisClient, useRedis, stats, pc, call, response, ncalls,
                   ttlIn, ttlOut, inflight, performed,
                   parseIn, parseOut, fetchIn, fetchOut,
                   manualRefreshEnabled, refreshCache, refreshLog>>

\* mutation: the cached-only entry point fetches its misses, as resolve does
getCachedTopics_fetches(K) ==
  \E keywords \in KeywordLists(K) \cup {TooManyKeywords} :
    ResolveBegin("getCachedTopics", PlainSections(keywords), FALSE)

getCachedTopics(K) ==
  /\ pc = "idle"
  /\ ncalls < MaxCalls
  /\ ncalls' = ncalls + 1
  /\ UNCHANGED <<now, redisClient, useRedis, pc, call, lastSet, ttlIn, ttlOut, inflight, performed,
                 parseIn, parseOut, fetchIn, fetchOut,
                 manualRefreshEnabled, refreshCache, refreshLog>>
  /\ \E keywords \in KeywordLists(K) \cup {TooManyKeywords} :
       LET n == Len(keywords)
           sections == PlainSections(keywords)
           op == "getCachedTopics"
       IN
       IF n = 0
       THEN /\ response' = Returned(op, sections, "ok", <<>>, NoLookup(0))
            /\ UNCHANGED <<nodeCache, redis, stats>>
       ELSE IF exceedsMaxKeywords(n)
       THEN /\ response' = Returned(op, sections, "TooManyKeywords", <<>>, NoLookup(n))
            /\ UNCHANGED <<nodeCache, redis, stats>>
       ELSE \E rejects \in RejectPatterns(n) :
            LET got == CacheService_getMultiple(CS, now, keywords, rejects)
                hits == HitPositions(sections, got.values, FALSE, now)
                uncached == UncachedPositions(hits, n)
                validCachedData == [j \in 1..Cardinality(hits) |->
                    [got.values[Ascending(hits, n)[j]] EXCEPT !.cached = TRUE]]
                c == [checkAt |-> now, values |-> got.values, hits |-> hits,
                      uncached |-> uncached, behaviours |-> <<>>, tasks |-> <<>>,
                      statsBefore |-> stats]
            IN /\ Commit(got.cs)
               /\ response' =
                    IF got.threw
                    THEN Returned(op, sections, "Exception", <<>>, c)
                    ELSE [Returned(op, sections, "ok",
                                   sortByKeywordIndex(validCachedData, keywords), c)
                            EXCEPT !.uncachedKeywords = Select(keywords, uncached)]

\* getTrendingTopics is called and waits for the lookup: the node-cache
\* lookup completes by itself, the Redis lookup when Redis settles the commands
getTrendingTopicsCalled(K) ==
  /\ pc = "idle"
  /\ ncalls < MaxCalls
  /\ ncalls' = ncalls + 1
  /\ pc' = "called"
  /\ \E keyword \in K :
       call' = [op |-> "getTrendingTopics", sections |-> PlainSections(<<keyword>>),
                redis |-> useRedis]
  /\ response' = NoResponse
  /\ UNCHANGED <<now, redisClient, useRedis, nodeCache, redis, stats, lastSet,
                 ttlIn, ttlOut, inflight, performed,
                 parseIn, parseOut, fetchIn, fetchOut,
                 manualRefreshEnabled, refreshCache, refreshLog>>

getTrendingTopicsLookupSettles ==
  /\ pc = "called"
  /\ UNCHANGED ncalls
  /\ ResolveLookup(call.op, call.sections, FALSE)

(***************************************************************************)
(* CacheService calls of concurrent callers.  On the node-cache path a     *)
(* call runs to completion; on the Redis path it is suspended at the await *)
(* of the Redis command and resumed when the command settles.              *)
(***************************************************************************)
\* mutation: the counter value read before the await is the one written back
CountersAtIncrement_stale(current, atCall) == atCall

\* this.stats.hits++ reads the counter in the run that writes it
CountersAtIncrement(current, atCall) == current

\* the increments performed so far, with those between before and after
Counted(before, after) == [c \in Counters |-> performed[c] + after[c] - before[c]]

CacheGetBegins(p, K) ==
  /\ inflight[p] = Idle
  /\ ncalls < MaxCacheCalls
  /\ ncalls' = ncalls + 1
  /\ \E keyword \in K :
       IF useRedis
       THEN /\ inflight' = [inflight EXCEPT
                             ![p] = [kind |-> "get", keyword |-> keyword, atCall |-> stats]]
            /\ UNCHANGED <<nodeCache, redis, stats, performed>>
       ELSE LET got == CacheService_get(CS, now, keyword, FALSE) IN
            /\ Commit(got.cs)
            /\ performed' = Counted(stats, got.cs.stats)
            /\ UNCHANGED inflight
  /\ UNCHANGED <<now, redisClient, useRedis, pc, call, response, lastSet, ttlIn, ttlOut,
                 parseIn, parseOut, fetchIn, fetchOut,
                 manualRefreshEnabled, refreshCache, refreshLog>>

CacheGetResumes(p) ==
  /\ inflight[p].kind = "get"
  /\ \E rejects \in BOOLEAN :
       LET seen == CountersAtIncrement(stats, inflight[p].atCall)
           got == CacheService_get([CS EXCEPT !.useRedis = TRUE, !.stats = seen], now,
                                   inflight[p].keyword, rejects)
       IN /\ Commit(got.cs)
          /\ performed' = Counted(seen, got.cs.stats)
  /\ inflight' = [inflight EXCEPT ![p] = Idle]
  /\ UNCHANGED <<now, redisClient, useRedis, pc, call, response, lastSet, ncalls,
                 ttlIn, ttlOut, parseIn, parseOut, fetchIn, fetchOut,
                 manualRefreshEnabled, refreshCache, refreshLog>>

CacheSetBegins(p, K) ==
  /\ inflight[p] = Idle
  /\ ncalls < MaxCacheCalls
  /\ ncalls' = ncalls + 1
  /\ \E keyword \in K :
       LET data == TrendingData(keyword, WebTopics(keyword), Date(now), FALSE) IN
       IF useRedis
       THEN /\ inflight' = [inflight EXCEPT
                             ![p] = [kind |-> "set", keyword |-> keyword, data |-> data]]
            /\ UNCHANGED <<nodeCache, redis, stats>>
       ELSE /\ Commit(CacheService_set(CS, now, keyword, data, FALSE).cs)
            /\ UNCHANGED inflight
  /\ UNCHANGED <<now, redisClient, useRedis, pc, call, response, lastSet, ttlIn, ttlOut,
                 performed,
                 parseIn, parseOut, fetchIn, fetchOut,
                 manualRefreshEnabled, refreshCache, refreshLog>>

CacheSetResumes(p) ==
  /\ inflight[p].kind = "set"
  /\ \E rejects \in BOOLEAN :
       Commit(CacheService_set([CS EXCEPT !.useRedis = TRUE], now, inflight[p].keyword,
                               inflight[p].data, rejects).cs)
  /\ inflight' = [inflight EXCEPT ![p] = Idle]
  /\ UNCHANGED <<now, redisClient, useRedis, pc, call, response, lastSet, ncalls,
                 ttlIn, ttlOut, performed,
                 parseIn, parseOut, fetchIn, fetchOut,
                 manualRefreshEnabled, refreshCache, refreshLog>>

\* calculateTtlSeconds applied to a retention request
ApplyTtl ==
  /\ ttlOut = 0
  /\ ttlOut' = calculateTtlSeconds(ttlIn)
  /\ UNCHANGED <<now, redisClient, useRedis, nodeCache, redis, stats, pc, call,
                 response, lastSet, ncalls, ttlIn, inflight, performed,
                 parseIn, parseOut, fetchIn, fetchOut,
                 manualRefreshEnabled, refreshCache, refreshLog>>

(***************************************************************************)
(* OpenAIService.parseWebSearchResponse on the text of a response.         *)
(* A text is either one line of JSON pieces or a sequence of paragraphs    *)
(* separated by blank lines.  A string is known by an identity, its        *)
(* length and the number of whitespace characters around it; it holds      *)
(* letters and inner spaces only, so none of the words "Here are",         *)
(* "topics", "JSON ARRAY:" and no code fence occurs in a text.             *)
(***************************************************************************)
Str(id, len, pad) == [id |-> id, len |-> len, pad |-> pad]

\* s.trim()
trim(s) == [s EXCEPT !.len = s.len - s.pad, !.pad = 0]

\* s.substring(0, n) of a trimmed string
substring(s, n) == [s EXCEPT !.len = Min(s.len, n)]

\* s.replace(/\\"/g, '"') of a string that holds quotes escaped quotes
unescape(s, quotes) == [s EXCEPT !.len = s.len - quotes]

\* searchUrl is the text the search query is built from
TrendingTopic(title, summary, searchUrl) ==
  [title |-> title, summary |-> summary, searchUrl |-> searchUrl]

\* the pieces of a line of JSON.  Open is [ and Close is ]; Comma is a comma
\* between the last object and ]; the commas between objects are not pieces
Open == [kind |-> "["]
Close == [kind |-> "]"]
Comma == [kind |-> ","]

\* {"title":"<title>","summary":"<summary>"} with extra "none", with a further
\* string field ("string": ,"source":"newswire") or a further number
\* field ("number": ,"score":5).  quotes is the number of quotes escaped as \"
\* in the summary; summary.len counts the text as written, backslashes included
Object(title, summary, extra, quotes) ==
  [kind |-> "object", title |-> title, summary |-> summary, extra |-> extra,
   quotes |-> quotes]

\* {"title":"Short lived story that barely fits her  with neither the string
\* nor the object closed; the open string may hold {x} (brace) and then [1]
\* (bracket)
Partial(brace, bracket) == [kind |-> "partial", brace |-> brace, bracket |-> bracket]

\* number of characters of a piece and of a line
pieceLength(p) ==
  CASE p.kind = "object" ->
         10 + p.title.len + 13 + p.summary.len + 2
            + (IF p.extra = "string" THEN 20 ELSE IF p.extra = "number" THEN 10 ELSE 0)
    [] p.kind = "partial" ->
         48 + (IF p.brace THEN 4 ELSE 0) + (IF p.bracket THEN 4 ELSE 0)
    [] OTHER -> 1

RECURSIVE jsonLength(_)
jsonLength(json) ==
  IF json = <<>> THEN 0
  ELSE pieceLength(Head(json)) + jsonLength(Tail(json))
       + (IF Len(json) > 1 /\ Head(json).kind \in {"object"}
             /\ json[2].kind \in {"object", "partial"} THEN 1 ELSE 0)

closesArray(p) == p.kind = "]" \/ (p.kind = "partial" /\ p.bracket)

\* content.match(pattern) for /\[[\s\S]*?\]/ and /(\[[\s\S]*?\])/: from the
\* first [ to the first ] after it.  The other five patterns need a code
\* fence or a marker word before the array and match no text of the model.
NoMatch == <<>>

jsonPatternMatch(json) ==
  IF json # <<>> /\ json[1].kind = "[" /\ \E i \in 2..Len(json) : closesArray(json[i])
  THEN LET last == CHOOSE i \in 2..Len(json) :
                     closesArray(json[i]) /\ \A j \in 2..(i - 1) : ~closesArray(json[j])
       IN SubSeq(json, 1, last)
  ELSE NoMatch

\* the cleaning replacements: a comma before ] is removed; the texts have no
\* fence, line break, repeated space or space around a colon
cleanJson(jsonString) == SelectSeq(jsonString, LAMBDA p : p.kind # ",")

lastChar(jsonString) ==
  LET p == jsonString[Len(jsonString)] IN
  CASE p.kind = "object" -> "}"
    [] p.kind = "partial" -> IF p.bracket THEN "]" ELSE IF p.brace THEN "}" ELSE "r"
    [] OTHER -> p.kind

openBraces(jsonString) ==
  Len(SelectSeq(jsonString, LAMBDA p : p.kind \in {"object", "partial"}))
    + Len(SelectSeq(jsonString, LAMBDA p : p.kind = "partial" /\ p.brace))

closeBraces(jsonString) ==
  Len(SelectSeq(jsonString, LAMBDA p : p.kind = "object"))
    + Len(SelectSeq(jsonString, LAMBDA p : p.kind = "partial" /\ p.brace))

includesTitle(jsonString) ==
  \E i \in 1..Len(jsonString) : jsonString[i].kind \in {"object", "partial"}

includesSummary(jsonString) ==
  \E i \in 1..Len(jsonString) : jsonString[i].kind = "object"

isTruncated(jsonString) ==
  \/ lastChar(jsonString) = "\""
  \/ includesTitle(jsonString) /\ lastChar(jsonString) # "]"
  \/ includesSummary(jsonString) /\ lastChar(jsonString) # "}"
  \/ openBraces(jsonString) > closeBraces(jsonString)

\* the first repair pattern: title and summary without a quote in them, then
\* string fields only.  The second and third pattern match objects the first
\* one matches, which are then duplicates.
matchesRepairPattern(p) ==
  p.kind = "object" /\ p.quotes = 0 /\ p.extra \in {"none", "string"}

RECURSIVE completeObjects(_, _)
completeObjects(jsonString, found) ==
  IF jsonString = <<>> THEN found
  ELSE LET p == Head(jsonString) IN
       IF /\ matchesRepairPattern(p)
          /\ Len(found) < 10
          /\ p.title.len > 3 /\ p.summary.len > 10
          /\ ~\E i \in 1..Len(found) : found[i].title = trim(p.title)
       THEN completeObjects(Tail(jsonString),
                            Append(found, Object(trim(p.title), trim(p.summary), "none", 0)))
       ELSE completeObjects(Tail(jsonString), found)

hasCloseBrace(p) == p.kind = "object" \/ (p.kind = "partial" /\ p.brace)

\* jsonString.substring(0, jsonString.lastIndexOf('}') + 1)
truncatedToLastObject(jsonString) ==
  LET last == CHOOSE i \in 1..Len(jsonString) :
                hasCloseBrace(jsonString[i])
                /\ \A j \in (i + 1)..Len(jsonString) : ~hasCloseBrace(jsonString[j])
      p == jsonString[last]
  IN IF p.kind = "partial"
     THEN Append(SubSeq(jsonString, 1, last - 1), Partial(TRUE, FALSE))
     ELSE SubSeq(jsonString, 1, last)

repairTruncatedJson(jsonString) ==
  LET found == completeObjects(jsonString, <<>>) IN
  IF Len(found) > 0
  THEN <<Open>> \o found \o <<Close>>
  ELSE IF includesTitle(jsonString) /\ includesSummary(jsonString)
  THEN LET cut == truncatedToLastObject(jsonString) IN
       IF lastChar(cut) # "]" /\ \E i \in 1..Len(cut) : cut[i].kind = "["
       THEN Append(cut, Close)
       ELSE cut
  ELSE jsonString

\* JSON.parse of a line: the array of its objects, or the error it throws
JSONparseArray(jsonString) ==
  IF \E i \in 1..Len(jsonString) : jsonString[i].kind = "partial"
  THEN [threw |-> TRUE, message |-> "Unterminated string", value |-> <<>>]
  ELSE IF \/ \E i \in 1..Len(jsonString) : jsonString[i].kind = ","
          \/ Head(jsonString).kind # "[" \/ lastChar(jsonString) # "]"
  THEN [threw |-> TRUE, message |-> "Unexpected token", value |-> <<>>]
  ELSE [threw |-> FALSE, message |-> "",
        value |-> [i \in 1..(Len(jsonString) - 2) |->
                     [title |-> jsonString[i + 1].title,
                      summary |-> unescape(jsonString[i + 1].summary,
                                           jsonString[i + 1].quotes)]]]

\* the filter on the parsed array
isValidTopic(topic) == trim(topic.title).len > 5 /\ trim(topic.summary).len > 10

validTopics(parsed) == SelectSeq(parsed, isValidTopic)

RECURSIVE singleLineObjects(_, _)
singleLineObjects(jsonString, topics) ==
  IF jsonString = <<>> THEN topics
  ELSE LET p == Head(jsonString) IN
       IF /\ p.kind = "object" /\ p.extra = "none" /\ p.quotes = 0
          /\ Len(topics) < 5
          /\ p.title.len > 5 /\ p.summary.len > 10
       THEN singleLineObjects(Tail(jsonString),
              Append(topics, TrendingTopic(trim(p.title), trim(p.summary), "keyword title")))
       ELSE singleLineObjects(Tail(jsonString), topics)

RECURSIVE multiLineObjects(_, _)
multiLineObjects(jsonString, topics) ==
  IF jsonString = <<>> THEN topics
  ELSE LET p == Head(jsonString) IN
       IF /\ p.kind = "object" /\ p.extra = "none"
          /\ Len(topics) < 5
          /\ p.title.len > 5 /\ p.summary.len > 10
          /\ ~\E i \in 1..Len(topics) : topics[i].title = trim(p.title)
       THEN multiLineObjects(Tail(jsonString),
              Append(topics, TrendingTopic(trim(p.title),
                                           unescape(trim(p.summary), p.quotes),
                                           "keyword title")))
       ELSE multiLineObjects(Tail(jsonString), topics)

extractValidObjectsFromCorruptedJson(jsonString) ==
  multiLineObjects(jsonString, singleLineObjects(jsonString, <<>>))

\* one turn of the loop over jsonPatterns for a pattern that matched
jsonStrategies(match) ==
  LET cleaned == cleanJson(match)
      jsonString == IF isTruncated(cleaned) THEN repairTruncatedJson(cleaned) ELSE cleaned
      parsed == JSONparseArray(jsonString)
  IN IF ~parsed.threw
     THEN LET valid == validTopics(parsed.value) IN
          [topics |-> [i \in 1..Len(valid) |->
                         TrendingTopic(trim(valid[i].title), trim(valid[i].summary), "title")],
           strategy |-> IF isTruncated(cleaned) THEN "repair" ELSE "direct"]
     ELSE IF parsed.message = "Unterminated string"
     THEN [topics |-> extractValidObjectsFromCorruptedJson(match), strategy |-> "salvage"]
     ELSE [topics |-> <<>>, strategy |-> "none"]

\* the paragraphs of a text that is not JSON: "1. <title> - <summary>",
\* "**<title>** <summary>", a title line followed by a summary line, and a
\* line of sentences; the last string of a paragraph ends with a full stop,
\* which its length counts
Numbered(title, summary) == [kind |-> "numbered", title |-> title, summary |-> summary]
Bold(title, summary) == [kind |-> "bold", title |-> title, summary |-> summary]
Lines(title, summary) == [kind |-> "lines", title |-> title, summary |-> summary]
Prose(sentences) == [kind |-> "prose", sentences |-> sentences]

\* a sentence without its full stop; meta: it holds one of the phrases
\* "here are", "trending topics", "json array"
Sentence(id, len, meta) == [str |-> Str(id, len, 0), meta |-> meta]

RECURSIVE sentencesLength(_)
sentencesLength(sentences) ==
  IF sentences = <<>> THEN 0
  ELSE Head(sentences).str.len + 1 + sentencesLength(Tail(sentences))
       + (IF Len(sentences) > 1 THEN 1 ELSE 0)

\* cleanSegment.length
segmentLength(p) ==
  CASE p.kind = "numbered" -> 3 + p.title.len + 3 + p.summary.len
    [] p.kind = "bold" -> 2 + p.title.len + 3 + p.summary.len
    [] p.kind = "lines" -> p.title.len + 1 + p.summary.len
    [] OTHER -> sentencesLength(p.sentences)

\* the loop over segments
RECURSIVE extractSegments(_, _, _)
extractSegments(segments, extractedTopics, maxResults) ==
  IF segments = <<>> \/ Len(extractedTopics) >= maxResults THEN extractedTopics
  ELSE LET p == Head(segments)
           rest == Tail(segments)
       IN IF segmentLength(p) < 20
          THEN extractSegments(rest, extractedTopics, maxResults)
          ELSE IF p.kind \in {"numbered", "bold"}
          THEN extractSegments(rest,
                 Append(extractedTopics,
                        TrendingTopic(trim(p.title), substring(trim(p.summary), 300), "title")),
                 maxResults)
          ELSE IF /\ p.kind = "lines"
                  /\ p.title.len > 10 /\ p.title.len < 150
                  /\ p.summary.len > 20 /\ p.summary.len < 500
          THEN extractSegments(rest,
                 Append(extractedTopics,
                        TrendingTopic(trim(p.title), substring(trim(p.summary), 300), "title")),
                 maxResults)
          ELSE extractSegments(rest, extractedTopics, maxResults)

\* the sentences of a paragraph, split at full stops
sentencesOf(p) ==
  CASE p.kind = "numbered" ->
         <<Sentence(<<"1">>, 1, FALSE),
           Sentence(p.title.id \o p.summary.id, p.title.len + 3 + p.summary.len - 1, FALSE)>>
    [] p.kind = "bold" ->
         <<Sentence(p.title.id \o p.summary.id, 2 + p.title.len + 3 + p.summary.len - 1, FALSE)>>
    [] p.kind = "lines" ->
         <<Sentence(p.title.id \o p.summary.id, p.title.len + 1 + p.summary.len - 1, FALSE)>>
    [] OTHER -> p.sentences

RECURSIVE sentencesOfAll(_)
sentencesOfAll(paras) ==
  IF paras = <<>> THEN <<>> ELSE sentencesOf(Head(paras)) \o sentencesOfAll(Tail(paras))

\* a line of JSON has no full stop: it is one sentence, and its first clause
\* ends before the first comma
jsonSentence(json) == [str |-> Str(<<"raw json">>, jsonLength(json), 0), meta |-> FALSE]

firstClause(content, sentence) ==
  IF content.json # <<>> /\ Len(content.json) > 1
  THEN Str(<<"raw json">>,
           IF content.json[2].kind = "object" THEN 1 + 10 + content.json[2].title.len + 1
           ELSE IF content.json[2].kind = "partial" THEN 1 + pieceLength(content.json[2])
           ELSE sentence.str.len, 0)
  ELSE sentence.str

\* content.replace(/\n/g, ' ').split(/[.!?]+/), trimmed and filtered by length
sentencesIn(content) ==
  SelectSeq(IF content.json # <<>> THEN <<jsonSentence(content.json)>>
            ELSE sentencesOfAll(content.paras),
            LAMBDA s : s.str.len > 30 /\ s.str.len < 400)

RECURSIVE mineSentences(_, _, _, _, _)
mineSentences(content, sentences, i, topics, maxResults) ==
  IF i > Len(sentences) \/ Len(topics) >= maxResults THEN topics
  ELSE LET title == sentences[i]
           summary == IF i + 1 <= Len(sentences) THEN sentences[i + 1] ELSE sentences[i]
           cleanTitle == substring(firstClause(content, title), 100)
       IN IF ~title.meta /\ cleanTitle.len > 15
          THEN mineSentences(content, sentences, i + 2,
                 Append(topics, TrendingTopic(cleanTitle, substring(summary.str, 250), "title")),
                 maxResults)
          ELSE mineSentences(content, sentences, i + 2, topics, maxResults)

aggressiveTextMining(content, maxResults) ==
  mineSentences(content, sentencesIn(content), 1, <<>>, maxResults)

\* the segments of a text: a line of JSON is one segment that none of the
\* three segment patterns matches
textExtraction(content, maxResults) ==
  IF content.json # <<>> THEN <<>> ELSE extractSegments(content.paras, <<>>, maxResults)

\* `Current ${Keyword} Developments`
genericTopic(keyword) ==
  TrendingTopic(Str(<<"Current Developments">>, 8 + Len(keyword) + 13, 0),
                Str(<<"Web search successfully found">>, 56 + Len(keyword) + 100, 0),
                "keyword latest news")

\* a text of the response, or response.output, which is not a string
Text(json, paras) == [kind |-> "text", json |-> json, paras |-> paras]
OutputItems == [kind |-> "output items"]

\* the whole of parseWebSearchResponse for a content given as its pieces.
\* Both patterns that match give the same match, so the second turn of the
\* loop repeats the first.  strategy names the return statement taken.
parseWebSearchResponseText(content, keyword, maxResults) ==
  IF content.kind # "text"
  THEN [topics |-> getFallbackTopics(keyword), strategy |-> "catch"]
  ELSE LET match == jsonPatternMatch(content.json)
           json == IF match = NoMatch THEN [topics |-> <<>>, strategy |-> "none"]
                   ELSE jsonStrategies(match)
           extractedTopics == textExtraction(content, maxResults)
           aggressiveTopics == aggressiveTextMining(content, maxResults)
       IN IF Len(json.topics) > 0 THEN json
          ELSE IF Len(extractedTopics) > 0
          THEN [topics |-> extractedTopics, strategy |-> "text"]
          ELSE IF Len(aggressiveTopics) > 0
          THEN [topics |-> aggressiveTopics, strategy |-> "mining"]
          ELSE [topics |-> <<genericTopic(keyword)>>, strategy |-> "generic"]

\* parseWebSearchResponse returns
parseWebSearchResponseReturns ==
  /\ parseIn # NoContent
  /\ parseOut = NotParsed
  /\ parseOut' = parseWebSearchResponseText(parseIn.content, parseIn.keyword,
                                            parseIn.maxResults)
  /\ UNCHANGED <<now, redisClient, useRedis, nodeCache, redis, stats, pc, call,
                 response, lastSet, ncalls, ttlIn, ttlOut, inflight, performed,
                 parseIn, fetchIn, fetchOut,
                 manualRefreshEnabled, refreshCache, refreshLog>>

\* a call of getWebSearchTrendingTopics: the keywords it asks the provider
\* about and the number of topics it asks for
ProviderCall(keywords, maxResults) == [keywords |-> keywords, maxResults |-> maxResults]

\* mutation: one call for all the keywords
webSearchCalls_batched(keywords, maxResults) == <<ProviderCall(keywords, maxResults)>>

\* mutation: one call for all the keywords when they ask for at most 12 topics
webSearchCalls_batchesSmall(keywords, maxResults) ==
  IF Len(keywords) * maxResults <= 12
  THEN <<ProviderCall(keywords, maxResults)>>
  ELSE [i \in 1..Len(keywords) |-> ProviderCall(<<keywords[i]>>, maxResults)]

\* keywords.map(async (keyword) => ... getWebSearchTrendingTopics(keyword,
\* maxResults)): the calls OpenAIService.getTrendingTopics makes
webSearchCalls(keywords, maxResults) ==
  [i \in 1..Len(keywords) |-> ProviderCall(<<keywords[i]>>, maxResults)]

\* OpenAIService.getTrendingTopics maps the keywords to provider calls
getTrendingTopicsSearches ==
  /\ fetchIn # NoFetch
  /\ fetchOut = NotFetched
  /\ fetchOut' = webSearchCalls(fetchIn.keywords, fetchIn.maxResults)
  /\ UNCHANGED <<now, redisClient, useRedis, nodeCache, redis, stats, pc, call,
                 response, lastSet, ncalls, ttlIn, ttlOut, inflight, performed,
                 parseIn, parseOut, fetchIn,
                 manualRefreshEnabled, refreshCache, refreshLog>>

(***************************************************************************)
(* fetchFreshData on what the provider calls produced: produced[i] is the  *)
(* number of topics the call for keywords[i] came back with.  A request's  *)
(* own maxResults is a field of its section and stays there.               *)
(***************************************************************************)
MaxProduced == 12
minResultsPerKeyword == 1

ProducedTopics(keyword, n) == [j \in 1..n |-> Topic("Web story", keyword)]

SettledTasks(keywords, produced) ==
  [i \in 1..Len(keywords) |->
     [rejected |-> FALSE,
      value |-> [keyword |-> keywords[i],
                 topics |-> ProducedTopics(keywords[i], produced[i])]]]

fetchFreshDataReturns ==
  /\ fetchIn # NoFetch
  /\ fetchOut = NotFetched
  /\ fetchOut' = fetchFreshData(fetchIn.keywords,
                                SettledTasks(fetchIn.keywords, fetchIn.produced), now)
  /\ UNCHANGED <<now, redisClient, useRedis, nodeCache, redis, stats, pc, call,
                 response, lastSet, ncalls, ttlIn, ttlOut, inflight, performed,
                 parseIn, parseOut, fetchIn,
                 manualRefreshEnabled, refreshCache, refreshLog>>

(***************************************************************************)
(* The refresh rate limiter.  The middleware runs to completion without    *)
(* awaiting anything, so one request is one step.  refreshLog is the list  *)
(* of the requests handled, each with what the middleware answered.        *)
(***************************************************************************)
manualRefreshLimit == 3
stdTTL == 86400
DayMs == 24 * TickMs
QuarterDayMs == 6 * TickMs
MaxRefreshRequests == 5

\* new Date().toDateString(): the calendar day of an instant
toDateString(t) == t \div DayMs

\* refreshCache.get<number>(key): undefined once the TTL has run out
refreshCacheGet(store, key, t) ==
  IF store[key] = NoCount \/ store[key].t < t THEN NoCount ELSE store[key]

\* mutation: the count of the client's key is read as 0 on every request
currentCountOf_forgets(store, key, t) == 0

\* refreshCache.get<number>(key) || 0
currentCountOf(store, key, t) ==
  IF refreshCacheGet(store, key, t) = NoCount THEN 0 ELSE refreshCacheGet(store, key, t).v

Handled(clientIp, today, answer) ==
  [clientIp |-> clientIp, today |-> today, answer |-> answer]

rateLimitRefresh(clientIp) ==
  LET today == toDateString(now)
      key == RefreshKey(clientIp, today)
      currentCount == currentCountOf(refreshCache, key, now)
  IN
  /\ Len(refreshLog) < MaxRefreshRequests
  /\ IF ~manualRefreshEnabled
     THEN /\ refreshLog' = Append(refreshLog, Handled(clientIp, today, "next"))
          /\ UNCHANGED refreshCache
     ELSE IF currentCount >= manualRefreshLimit
     THEN /\ refreshLog' = Append(refreshLog, Handled(clientIp, today, "429"))
          /\ UNCHANGED refreshCache
     ELSE /\ refreshCache' = [refreshCache EXCEPT
                                ![key] = Count(currentCount + 1, now + stdTTL * 1000)]
          /\ refreshLog' = Append(refreshLog, Handled(clientIp, today, "next"))
  /\ UNCHANGED <<now, redisClient, useRedis, nodeCache, redis, stats, pc, call,
                 response, lastSet, ncalls, ttlIn, ttlOut, inflight, performed,
                 parseIn, parseOut, fetchIn, fetchOut, manualRefreshEnabled>>

\* six hours pass
QuarterDayPasses ==
  /\ toDateString(now + QuarterDayMs) <= MaxDay
  /\ now' = now + QuarterDayMs
  /\ UNCHANGED <<redisClient, useRedis, nodeCache, redis, stats, pc, call,
                 response, lastSet, ncalls, ttlIn, ttlOut, inflight, performed,
                 parseIn, parseOut, fetchIn, fetchOut,
                 manualRefreshEnabled, refreshCache, refreshLog>>

(***************************************************************************)
(* The batch OpenAIService: one chat completion for all the keywords, its  *)
(* reply a JSON array of {keyword, topics} items.  A reply is what the     *)
(* completion gave: an API error, prose without an array, an array that    *)
(* JSON.parse rejects, or an array of items; an item has the fields named  *)
(* in fields, and its topics are titles.                                   *)
(***************************************************************************)
MaxItems == 2

BatchItem(fields, keyword, titles) ==
  [fields |-> fields, keyword |-> keyword, topics |-> titles]

BatchReply(kind, items) == [kind |-> kind, items |-> items]

\* item.keyword of an item without the field
UndefinedKeyword == <<"undefined">>

KeywordTopics(keyword, topics) == [keyword |-> keyword, topics |-> topics]

\* content.match(/\[[\s\S]*\]/), JSON.parse, parsed.map(item => ...): a missing
\* array, a parse error and item.topics.map on an item without topics all
\* end in the catch, which answers the fallback topics of every keyword
parseResponse(reply, keywords) ==
  IF \/ reply.kind # "array"
     \/ \E i \in 1..Len(reply.items) : "topics" \notin reply.items[i].fields
  THEN [i \in 1..Len(keywords) |->
          KeywordTopics(keywords[i], getFallbackTopics(keywords[i]))]
  ELSE [i \in 1..Len(reply.items) |->
          LET item == reply.items[i]
              keyword == IF "keyword" \in item.fields THEN item.keyword
                         ELSE UndefinedKeyword
          IN KeywordTopics(keyword,
                           [j \in 1..Len(item.topics) |-> Topic(item.topics[j], keyword)])]

\* the batch getTrendingTopics: one completion, then parseResponse; an API
\* error or an empty content is rethrown as 'Failed to fetch trending topics'
getTrendingTopics_batch(keywords, maxResults, reply) ==
  [calls |-> <<ProviderCall(keywords, maxResults)>>,
   threw |-> reply.kind = "error",
   value |-> IF reply.kind = "error" THEN <<>> ELSE parseResponse(reply, keywords)]

\* fetchFreshData over the batch service, with the caller's catch
fetchFreshData_batch(keywords, reply, t) ==
  LET r == getTrendingTopics_batch(keywords, maxResultsPerKeyword, reply) IN
  [calls |-> r.calls,
   data |-> IF r.threw
            THEN [i \in 1..Len(keywords) |-> getFallbackData(keywords[i], t)]
            ELSE [i \in 1..Len(r.value) |->
                    TrendingData(r.value[i].keyword,
                                 Take(r.value[i].topics, maxResultsPerKeyword),
                                 Date(t), FALSE)]]

\* the orchestrator fetches the keywords of a request over the batch service
fetchFreshDataBatchReturns ==
  /\ fetchIn # NoFetch
  /\ fetchOut = NotFetched
  /\ fetchOut' = <<fetchFreshData_batch(fetchIn.keywords, fetchIn.reply, now)>>
  /\ UNCHANGED <<now, redisClient, useRedis, nodeCache, redis, stats, pc, call,
                 response, lastSet, ncalls, ttlIn, ttlOut, inflight, performed,
                 parseIn, parseOut, fetchIn,
                 manualRefreshEnabled, refreshCache, refreshLog>>

(***************************************************************************)
(* Specifications                                                          *)
(***************************************************************************)
Init == InitWith("null") /\ ttlIn = Undefined /\ parseIn = NoContent
          /\ fetchIn = NoFetch

\* the keyword entry points (GET /trending, GET /trending/cached,
\* POST /trending/refresh) of a development deployment (node-cache)
Next ==
  \/ Tick
  \/ getTrendingTopics(Keywords)
  \/ getCachedTopics(Keywords)
  \/ refreshTopics(Keywords)
  \/ KeywordTaskSettles(Behaviours)
  \/ getTrendingTopicsReturns
  \/ refreshTopicsReturns

Spec == Init /\ [][Next]_vars

\* the per-section retention entry points (POST /trending/with-retention,
\* POST /trending/refresh-with-retention) next to the keyword entry points
NextRetention ==
  \/ Tick
  \/ getTrendingTopicsWithRetention(FewKeywords, Retentions)
  \/ refreshTopicsWithRetention(FewKeywords, Retentions)
  \/ getTrendingTopics({KwX})
  \/ getCachedTopics({KwX})
  \/ refreshTopics({KwX})
  \/ KeywordTaskSettles(FewBehaviours)
  \/ getTrendingTopicsWithRetentionReturns
  \/ refreshTopicsWithRetentionReturns
  \/ getTrendingTopicsReturns
  \/ refreshTopicsReturns

SpecRetention == Init /\ [][NextRetention]_vars

\* a production deployment: Redis once connected, node-cache before and after
InitProduction == InitWith("connecting") /\ ttlIn = Undefined /\ parseIn = NoContent
          /\ fetchIn = NoFetch

NextProduction ==
  \/ Tick
  \/ RedisConnected
  \/ RedisClientError
  \/ RedisForeignWrite
  \/ getTrendingTopics({KwX})
  \/ getCachedTopics({KwX})
  \/ refreshTopics({KwX})
  \/ KeywordTaskSettles(Behaviours)
  \/ getTrendingTopicsReturns
  \/ refreshTopicsReturns

SpecProduction == InitProduction /\ [][NextProduction]_vars

\* progress of getTrendingTopics and refreshTopics in a production deployment.
\* A provider call settles or its timer fires (withTimeout); a node-cache call
\* completes; a Redis command completes only if Redis settles it.
NextLive ==
  \/ RedisConnected
  \/ RedisClientError
  \/ getTrendingTopicsCalled({KwX})
  \/ getTrendingTopicsLookupSettles
  \/ refreshTopics({KwX})
  \/ KeywordTaskSettles(FewBehaviours)
  \/ getTrendingTopicsReturns
  \/ refreshTopicsReturns

SpecLive ==
  /\ InitProduction
  /\ [][NextLive]_vars
  /\ WF_vars(KeywordTaskSettles(FewBehaviours))
  /\ WF_vars(getTrendingTopicsLookupSettles /\ ~call.redis)
  /\ WF_vars(getTrendingTopicsReturns /\ ~useRedis)
  /\ WF_vars(refreshTopicsReturns /\ ~useRedis)

\* concurrent callers of CacheService in a production deployment
NextConcurrent ==
  \/ RedisConnected
  \/ RedisClientError
  \/ \E p \in Procs : CacheGetBegins(p, FewKeywords)
  \/ \E p \in Procs : CacheGetResumes(p)
  \/ \E p \in Procs : CacheSetBegins(p, FewKeywords)
  \/ \E p \in Procs : CacheSetResumes(p)

SpecConcurrent == InitProduction /\ [][NextConcurrent]_vars

\* calculateTtlSeconds on its own, over a range of retention requests
MinValue == 3
MaxValue == 200
TtlInputs == {Retention(v, u) : v \in (0 - MinValue)..MaxValue, u \in {"hour", "day"}}
               \cup {Retention(999, "hour"), Retention(999, "day")}

InitTtl == InitWith("null") /\ ttlIn \in TtlInputs /\ parseIn = NoContent
          /\ fetchIn = NoFetch

SpecTtl == InitTtl /\ [][ApplyTtl]_vars

\* parseWebSearchResponse on its own, over texts of at most MaxPieces objects
\* or paragraphs
MaxPieces == 3

SeqsUpTo(S, n) == UNION {[1..k -> S] : k \in 0..n}

\* objects on either side of each threshold of the pipeline
JsonObjects ==
  { Object(Str(<<"a">>, 12, 0), Str(<<"sa">>, 40, 0), "none", 0),
    Object(Str(<<"b">>, 14, 0), Str(<<"sb">>, 45, 0), "none", 0),
    Object(Str(<<"c">>, 5, 0), Str(<<"sc">>, 40, 0), "none", 0),
    Object(Str(<<"d">>, 12, 0), Str(<<"sd">>, 10, 0), "none", 0),
    Object(Str(<<"e">>, 12, 0), Str(<<"se">>, 40, 0), "number", 0),
    Object(Str(<<"f">>, 12, 0), Str(<<"sf">>, 40, 0), "string", 0),
    Object(Str(<<"g">>, 12, 0), Str(<<"sg">>, 12, 0), "none", 2),
    Object(Str(<<"h">>, 8, 4), Str(<<"sh">>, 40, 0), "none", 0) }

\* the array is closed, closed after a comma, or cut in the middle of an object
JsonTails ==
  { <<Close>>, <<Comma, Close>>, <<Partial(FALSE, FALSE)>>, <<Partial(TRUE, FALSE)>>,
    <<Partial(FALSE, TRUE)>>, <<Partial(TRUE, TRUE)>> }

JsonLines ==
  { <<Open>> \o objects \o tail : objects \in SeqsUpTo(JsonObjects, MaxPieces),
                                  tail \in JsonTails }

Paragraphs ==
  { Numbered(Str(<<"n1">>, 2, 0), Str(<<"m1">>, 30, 0)),
    Numbered(Str(<<"n2">>, 14, 0), Str(<<"m2">>, 3, 0)),
    Numbered(Str(<<"n3">>, 12, 0), Str(<<"m3">>, 40, 0)),
    Numbered(Str(<<"n4">>, 4, 0), Str(<<"m4">>, 5, 0)),
    Bold(Str(<<"b1">>, 12, 0), Str(<<"c1">>, 40, 0)),
    Lines(Str(<<"l1">>, 20, 0), Str(<<"k1">>, 60, 0)),
    Lines(Str(<<"l2">>, 8, 0), Str(<<"k2">>, 40, 0)),
    Prose(<<Sentence(<<"p1">>, 50, FALSE), Sentence(<<"p2">>, 60, FALSE)>>),
    Prose(<<Sentence(<<"p3">>, 50, TRUE)>>),
    Prose(<<Sentence(<<"p4">>, 300, FALSE)>>) }

Contents ==
  {Text(json, <<>>) : json \in JsonLines}
    \cup {Text(<<>>, paras) : paras \in SeqsUpTo(Paragraphs, MaxPieces)}
    \cup {OutputItems}

MaxResultsChoices == {1, 3}

InitParse ==
  /\ InitWith("null")
  /\ ttlIn = Undefined
  /\ parseIn \in [content : Contents, keyword : {KwX}, maxResults : MaxResultsChoices]
  /\ fetchIn = NoFetch

SpecParse == InitParse /\ [][parseWebSearchResponseReturns]_vars

\* OpenAIService.getTrendingTopics on its own, for up to MaxFetched keywords
\* and every number of topics per keyword up to maxResultsPerKeyword
MaxFetched == 5

FetchInputs ==
  [keywords : UNION {[1..n -> Keywords] : n \in 1..MaxFetched},
   maxResults : 1..maxResultsPerKeyword]

InitFetch ==
  /\ InitWith("null")
  /\ ttlIn = Undefined
  /\ parseIn = NoContent
  /\ fetchIn \in FetchInputs

SpecFetch == InitFetch /\ [][getTrendingTopicsSearches]_vars

\* operator-triggered invalidation next to the entry points, outside
\* production (node-cache is the backend)
NextInvalidate ==
  \/ Tick
  \/ getTrendingTopics(FewKeywords)
  \/ getCachedTopics(Keywords)
  \/ KeywordTaskSettles(FewBehaviours)
  \/ getTrendingTopicsReturns
  \/ clearCacheByKeyword(Keywords)
  \/ clearCache

SpecInvalidate == Init /\ [][NextInvalidate]_vars

\* fetchFreshData over requests of one or two keywords, every maxResults a
\* section can carry and every number of topics a call can produce
SliceInputs ==
  UNION {[keywords : {kws \in [1..n -> FewKeywords] : DuplicateFree(kws)},
          maxResults : 0..(maxResultsPerKeyword + 1),
          produced : [1..n -> 0..MaxProduced]] : n \in 1..MaxReq}

InitSlice ==
  /\ InitWith("null")
  /\ ttlIn = Undefined
  /\ parseIn = NoContent
  /\ fetchIn \in SliceInputs

SpecSlice == InitSlice /\ [][fetchFreshDataReturns]_vars

\* The refresh route's limiter, switched on or off by the configuration
InitLimiter ==
  /\ now = 0
  /\ redisClient = "null"
  /\ useRedis = FALSE
  /\ nodeCache = [k \in CacheKeys |-> Null]
  /\ redis = [k \in CacheKeys |-> Null]
  /\ stats = [hits |-> 0, misses |-> 0, errors |-> 0]
  /\ pc = "idle"
  /\ call = NoCall
  /\ response = NoResponse
  /\ lastSet = [k \in CacheKeys |-> NeverSet]
  /\ ncalls = 0
  /\ ttlIn = Undefined
  /\ ttlOut = 0
  /\ inflight = [p \in Procs |-> Idle]
  /\ performed = [c \in Counters |-> 0]
  /\ parseIn = NoContent
  /\ parseOut = NotParsed
  /\ fetchIn = NoFetch
  /\ fetchOut = NotFetched
  /\ manualRefreshEnabled \in BOOLEAN
  /\ refreshCache = [key \in RefreshKeys |-> NoCount]
  /\ refreshLog = <<>>

NextLimiter ==
  \/ \E clientIp \in ClientIps : rateLimitRefresh(clientIp)
  \/ QuarterDayPasses

SpecLimiter == InitLimiter /\ [][NextLimiter]_vars

\* The batch fetch over every request and every reply of the completion
BatchTitles == {"Batch story one", "Batch story two"}

BatchItems ==
  {BatchItem(f, k, t) : f \in SUBSET {"keyword", "topics"}, k \in FewKeywords,
                        t \in {<<>>, <<"Batch story one">>,
                               <<"Batch story one", "Batch story two">>}}

BatchReplies ==
  {BatchReply(kind, <<>>) : kind \in {"error", "prose", "garbled"}}
    \cup {BatchReply("array", items) :
            items \in UNION {[1..n -> BatchItems] : n \in 0..MaxItems}}

BatchInputs ==
  [keywords : {kws \in UNION {[1..n -> FewKeywords] : n \in 1..MaxReq} :
                 DuplicateFree(kws)},
   reply : BatchReplies]

InitBatch ==
  /\ InitWith("null")
  /\ ttlIn = Undefined
  /\ parseIn = NoContent
  /\ fetchIn \in BatchInputs

SpecBatch == InitBatch /\ [][fetchFreshDataBatchReturns]_vars

(***************************************************************************)
(* Properties.  response is the last response an entry point returned,     *)
(* with what the operation saw: the values the cache lookup gave           *)
(* (values, at instant checkAt), the positions served from the cache       *)
(* (hits), the positions fetched (uncached) and how each provider call     *)
(* behaved (behaviours).                                                   *)
(***************************************************************************)
ResolveOps == {"getTrendingTopics", "getTrendingTopicsWithRetention"}
RefreshOps == {"refreshTopics", "refreshTopicsWithRetention"}

Requested == KeywordsOf(response.sections)
Range(seq) == {seq[i] : i \in 1..Len(seq)}

\* the TTL, in seconds, that applies to a request
AppliedTtlSeconds(cacheRetention) ==
  IF cacheRetention = Undefined THEN cacheDurationHours * 3600
  ELSE calculateTtlSeconds(cacheRetention)

Age(data, t) == t - data.lastUpdated.ms

\* C1: for a duplicate-free request, the i-th result of resolve answers the
\* i-th requested keyword (it is the record of that keyword's cache key)
C1_ResultsInRequestOrder ==
  (response.op \in ResolveOps /\ response.status = "ok" /\ DuplicateFree(Requested))
    => \A i \in 1..Len(Requested) :
         /\ i <= Len(response.results)
         /\ getCacheKey(response.results[i].keyword) = getCacheKey(Requested[i])

\* a resolve that returned a cache hit and a fetched record out of request order
C1_Witness ==
  /\ response.op \in ResolveOps
  /\ response.status = "ok"
  /\ Len(Requested) = 2
  /\ Len(response.results) = 2
  /\ response.hits = {2}
  /\ getCacheKey(response.results[1].keyword) = getCacheKey(Requested[2])
  /\ getCacheKey(response.results[2].keyword) = getCacheKey(Requested[1])
  /\ getCacheKey(Requested[1]) # getCacheKey(Requested[2])

\* position i of the request is answered by result r: the record the cache
\* gave for it when it was a hit, a record fetched for its keyword otherwise
Answers(r, i) ==
  IF i \in response.hits
  THEN r = response.values[i]
  ELSE r.keyword = Requested[i] /\ ~r.cached /\ r.lastUpdated = Date(response.at)

\* C2: resolve returns as many results as keywords were requested, one for
\* each requested keyword, whatever the lookup and the fetch came to
C2_OneResultPerKeyword ==
  (response.op \in ResolveOps /\ response.status = "ok")
    => /\ Len(response.results) = Len(Requested)
       /\ \E p \in Permutations(1..Len(Requested)) :
            \A i \in 1..Len(Requested) : Answers(response.results[p[i]], i)

\* a resolve of two keywords: one served from the cache, one whose call
\* timed out
C2_Witness ==
  /\ response.op = "getTrendingTopics"
  /\ response.status = "ok"
  /\ Len(Requested) = 2
  /\ Cardinality(response.hits) = 1
  /\ Len(response.behaviours) = 1
  /\ response.behaviours[1].web = "hang"
  /\ Len(response.results) = 2

\* a cached record that is valid for a request made at instant t
Fresh(data, cacheRetention, t) ==
  data # Null /\ Age(data, t) < AppliedTtlSeconds(cacheRetention) * 1000

\* C3: while resolve fetches, provider calls exist only for the positions
\* classified as misses, and none of them had a present and valid record
\* at the cache check
C3_NoCallForValidRecord ==
  (pc = "fetching" /\ call.op \in ResolveOps)
    => /\ Len(call.tasks) = Len(call.uncached)
       /\ \A i \in 1..Len(call.sections) :
            Fresh(call.values[i], call.sections[i].cacheRetention, call.checkAt)
              => i \notin Range(call.uncached)

\* a resolve that serves one keyword from the cache and has a provider call
\* settled for another
C3_Witness ==
  /\ pc = "fetching"
  /\ call.op \in ResolveOps
  /\ \E i \in 1..Len(call.sections) :
       /\ Fresh(call.values[i], call.sections[i].cacheRetention, call.checkAt)
       /\ i \in call.hits
  /\ \E j \in 1..Len(call.tasks) : call.tasks[j] # Pending

LookupOps == ResolveOps \cup {"getCachedTopics"}

\* C4: resolve and getCachedTopics serve from the cache only records younger
\* than the TTL that applies to the request; every other position is a miss
C4_NoExpiredRecordServed ==
  (response.op \in LookupOps /\ response.status = "ok")
    => /\ \A i \in response.hits :
            Fresh(response.values[i], response.sections[i].cacheRetention,
                  response.checkAt)
       /\ \A i \in (1..Len(Requested)) \ response.hits : i \in Range(response.uncached)
       /\ \A k \in 1..Len(response.results) :
            response.results[k].cached
              => \E i \in response.hits : response.results[k] = response.values[i]
       /\ response.op = "getCachedTopics"
            => response.uncachedKeywords = Select(Requested, response.uncached)

\* a lookup found a record whose age has reached the request's retention
\* while the store still held it, and made its keyword a miss
C4_Witness ==
  /\ response.op \in LookupOps
  /\ response.status = "ok"
  /\ \E i \in 1..Len(Requested) :
       /\ response.values[i] # Null
       /\ response.sections[i].cacheRetention # Undefined
       /\ Age(response.values[i], response.checkAt)
            >= AppliedTtlSeconds(response.sections[i].cacheRetention) * 1000
       /\ i \in Range(response.uncached)

\* equality of records up to the cached flag, which set turns on
SameRecord(a, b) == a # Null /\ b # Null /\ [a EXCEPT !.cached = TRUE] = [b EXCEPT !.cached = TRUE]

\* C5: a get of a key less than ttl seconds after its last accepted set gives
\* the record that was set, and a get once ttl seconds have elapsed gives
\* absent (ttl being the TTL the writer asked for)
C5_CacheRoundTrip ==
  (response.op = "getCachedTopics" /\ response.status = "ok")
    => \A i \in 1..Len(Requested) :
         LET s == lastSet[getCacheKey(Requested[i])] IN
         (s.kind = "set" /\ s.accepted)
           => IF response.checkAt - s.at < s.ttl * 1000
              THEN SameRecord(response.values[i], s.data)
              ELSE response.values[i] = Null

\* a get at the instant the requested TTL has elapsed still gives the record
C5_Witness ==
  /\ response.op = "getCachedTopics"
  /\ response.status = "ok"
  /\ \E i \in 1..Len(Requested) :
       LET s == lastSet[getCacheKey(Requested[i])] IN
       /\ s.kind = "set"
       /\ s.ttl < cacheDurationHours * 3600
       /\ response.checkAt - s.at >= s.ttl * 1000
       /\ SameRecord(response.values[i], s.data)

\* the store the write of a key went to
StoreOf(s) == IF s.redis THEN redis ELSE nodeCache

\* C6: an entry written by resolve or refresh expires ttlSeconds(retention)
\* seconds after the write
C6_StoredWithRequestedTtl ==
  \A k \in CacheKeys :
    (lastSet[k].kind = "set" /\ lastSet[k].accepted /\ StoreOf(lastSet[k])[k] # Null)
      => StoreOf(lastSet[k])[k].t = lastSet[k].at + lastSet[k].ttl * 1000

\* an entry written for a retention of one day that expires after two hours
C6_Witness ==
  \E k \in CacheKeys :
    /\ lastSet[k].kind = "set"
    /\ lastSet[k].ttl = 24 * 3600
    /\ nodeCache[k] # Null
    /\ nodeCache[k].t = lastSet[k].at + cacheDurationHours * 3600 * 1000

\* C7: ttlSeconds clamps value to 1..168 hours or 1..7 days and converts to
\* seconds; 999 hours count as 168 hours and 0 days as 1 day
C7_TtlSecondsClamp ==
  /\ ttlOut # 0
       => ttlOut = IF ttlIn.unit = "hour"
                   THEN Min(Max(ttlIn.value, 1), 168) * 3600
                   ELSE Min(Max(ttlIn.value, 1), 7) * 86400
  /\ calculateTtlSeconds(Retention(999, "hour")) = calculateTtlSeconds(Retention(168, "hour"))
  /\ calculateTtlSeconds(Retention(0, "day")) = calculateTtlSeconds(Retention(1, "day"))

\* an out-of-range value went through the clamp
C7_Witness ==
  \/ ttlIn = Retention(999, "hour") /\ ttlOut = 168 * 3600
  \/ ttlIn = Retention(0, "day") /\ ttlOut = 86400

\* C8: resolve and refresh return a list of records unless the caller asked
\* for more than maxKeywords keywords, whatever the cache and the provider do
C8_FailsOnlyForCallerErrors ==
  (response.op \in ResolveOps \cup RefreshOps)
    => \/ /\ response.status = "ok"
          /\ \A k \in 1..Len(response.results) :
               /\ response.results[k].kind = "data"
               /\ response.results[k].keyword \in Range(Requested)
               /\ Len(response.results[k].topics) >= 1
          /\ Requested # <<>> => response.results # <<>>
       \/ /\ response.status = "TooManyKeywords"
          /\ Len(Requested) > maxKeywords

\* resolve(["x"]) with Redis rejecting its get and its set, and the provider
\* timing out, returned a record for "x"
C8_Witness ==
  /\ response.op = "getTrendingTopics"
  /\ response.status = "ok"
  /\ Requested = <<KwX>>
  /\ stats.errors = response.statsBefore.errors + 1
  /\ lastSet[getCacheKey(KwX)].kind = "set"
  /\ lastSet[getCacheKey(KwX)].redis
  /\ ~lastSet[getCacheKey(KwX)].accepted
  /\ lastSet[getCacheKey(KwX)].at = response.at
  /\ response.behaviours[1].web = "hang"
  /\ Len(response.results) = 1
  /\ response.results[1].keyword = KwX

\* what a keyword's own provider call yields, by its behaviour alone
ExpectedTopics(b, keyword) ==
  CASE b.web = "ok" /\ b.text = "json" -> WebTopics(keyword)
    [] b.web = "ok" /\ b.text # "json" -> <<Topic("Current Developments", keyword)>>
    [] b.web = "error" /\ b.chat = "ok" -> ChatTopics(keyword)
    [] b.web = "error" /\ b.chat = "error" -> <<Topic("Unable to fetch", keyword)>>
    [] OTHER -> <<Topic("Latest Updates", keyword)>>

\* C9: each fetched keyword's result is determined by its own provider call:
\* a timeout or error of one call changes no other keyword's result
C9_KeywordCallsIndependent ==
  (response.op \in ResolveOps \cup RefreshOps /\ response.status = "ok")
    => \A j \in 1..Len(response.uncached) :
         LET keyword == Requested[response.uncached[j]] IN
         \E k \in 1..Len(response.results) :
           /\ response.results[k].keyword = keyword
           /\ ~response.results[k].cached
           /\ response.results[k].topics = ExpectedTopics(response.behaviours[j], keyword)

\* two keywords fetched together: the first call timed out, the second
\* resolved and its record holds the provider's topics
C9_Witness ==
  /\ response.op \in ResolveOps \cup RefreshOps
  /\ response.status = "ok"
  /\ Len(response.uncached) = 2
  /\ response.behaviours[1].web = "hang"
  /\ response.behaviours[2] = Behaviour("ok", "unused", "json")
  /\ \E k \in 1..Len(response.results) :
       response.results[k].topics = WebTopics(Requested[response.uncached[2]])

\* the lookup of a resolve serves, for every key a refresh wrote last and
\* within the TTL, the record that refresh wrote
ServesRefreshed(lookup) ==
  \A i \in 1..Len(lookup.sections) :
    LET s == lastSet[getCacheKey(lookup.sections[i].keyword)]
        cacheRetention == lookup.sections[i].cacheRetention
    IN (/\ s.kind = "set"
        /\ s.by \in RefreshOps
        /\ s.accepted
        /\ lookup.checkAt - s.at < s.ttl * 1000
        /\ lookup.checkAt - s.at < AppliedTtlSeconds(cacheRetention) * 1000)
         => /\ i \in lookup.hits
            /\ SameRecord(lookup.values[i], s.data)

\* C10: refresh looks nothing up, fetches every requested keyword and
\* overwrites its entry, so a resolve that follows within the TTL serves the
\* refreshed record
C10_RefreshOverwrites ==
  /\ (response.op \in RefreshOps /\ response.status = "ok")
       => /\ stats = response.statsBefore
          /\ response.hits = {}
          /\ Len(response.tasks) = Len(Requested)
          /\ \A i \in 1..Len(Requested) :
               LET s == lastSet[getCacheKey(Requested[i])] IN
               s.kind = "set" /\ s.by = response.op /\ s.at = response.at
  /\ (pc = "fetching" /\ call.op \in ResolveOps) => ServesRefreshed(call)
  /\ (response.op \in ResolveOps /\ response.status = "ok" /\ response.uncached = <<>>)
       => ServesRefreshed(response)

\* a resolve within the retention a refresh asked for fetches the keyword
\* again: the refreshed entry has left the store
C10_Witness ==
  /\ pc = "fetching"
  /\ call.op \in ResolveOps
  /\ \E i \in 1..Len(call.sections) :
       LET s == lastSet[getCacheKey(call.sections[i].keyword)] IN
       /\ s.kind = "set"
       /\ s.by \in RefreshOps
       /\ call.checkAt - s.at < s.ttl * 1000
       /\ call.checkAt - s.at < AppliedTtlSeconds(call.sections[i].cacheRetention) * 1000
       /\ call.values[i] = Null
       /\ i \in Range(call.uncached)

\* a step in which the entry point op returns to its caller
Returns(op) == ncalls' = ncalls + 1 /\ response'.op = op

\* C11: getCachedTopics issues no provider call and leaves every cache entry
\* as it was, whatever the number of misses; it reports the misses by name
C11_CachedOnlyReadsOnly ==
  [][/\ call'.op # "getCachedTopics"
     /\ Returns("getCachedTopics")
          => /\ nodeCache' = nodeCache /\ redis' = redis /\ lastSet' = lastSet
             /\ pc = "idle" /\ pc' = "idle" /\ call' = call
             /\ response'.tasks = <<>>
             /\ response'.status = "ok"
                  => /\ response'.uncachedKeywords =
                          Select(KeywordsOf(response'.sections), response'.uncached)
                     /\ Len(response'.results) = Cardinality(response'.hits)]_vars

\* getCachedTopics answered a request of two keywords, one a hit and one a
\* miss whose key stays absent from the store
C11_Witness ==
  /\ response.op = "getCachedTopics"
  /\ response.status = "ok"
  /\ Len(Requested) = 2
  /\ Cardinality(response.hits) = 1
  /\ Len(response.uncachedKeywords) = 1
  /\ nodeCache[getCacheKey(response.uncachedKeywords[1])] = Null
  /\ pc = "idle"

\* C12: a request of more than maxKeywords entries fails at once with the
\* too-many-keywords error: no cache read or write, no counter change, no
\* provider call
C12_TooManyKeywordsFailsFast ==
  [][/\ call'.op # "none" => Len(call'.sections) <= maxKeywords
     /\ (ncalls' = ncalls + 1 /\ response'.op # "none"
           /\ Len(response'.sections) > maxKeywords)
          => /\ response'.status = "TooManyKeywords"
             /\ nodeCache' = nodeCache /\ redis' = redis /\ stats' = stats
             /\ lastSet' = lastSet /\ pc' = "idle" /\ call' = call
             /\ response'.tasks = <<>>
     /\ (ncalls' = ncalls + 1 /\ response'.op # "none"
           /\ response'.status = "TooManyKeywords")
          => Len(response'.sections) > maxKeywords]_vars

\* a retention entry point has rejected a request of maxKeywords + 1 sections
\* while the cache held an entry
C12_Witness ==
  /\ response.op \in {"getTrendingTopicsWithRetention", "refreshTopicsWithRetention"}
  /\ response.status = "TooManyKeywords"
  /\ Len(Requested) = maxKeywords + 1
  /\ stats = response.statsBefore
  /\ \E k \in CacheKeys : nodeCache[k] # Null

\* how much a counter has grown over the lookup of the response at hand
Grown(counter) == stats[counter] - response.statsBefore[counter]

\* the positions of the lookup at which get returned a record
Found == {i \in 1..Len(Requested) : response.values[i] # Null}

\* C13: each get adds exactly one to exactly one counter, hits when it
\* returns a record, misses or errors when it returns absent; so a lookup of
\* n keywords grows the counters by n in all, and hits by the records returned
C13_GetCountsOnce ==
  (response.op \in LookupOps /\ response.status = "ok")
    => /\ Grown("hits") + Grown("misses") + Grown("errors") = Len(Requested)
       /\ Grown("hits") = Cardinality(Found)

\* a get found an undecodable string under its key: it returned absent and
\* counted a hit as well as an error
C13_Witness ==
  /\ response.op \in LookupOps
  /\ response.status = "ok"
  /\ Len(Requested) = 1
  /\ Found = {}
  /\ Grown("hits") = 1
  /\ Grown("errors") = 1

\* C14: whatever the interleaving of concurrent get and set calls, once no
\* call is suspended each counter has grown by the increments performed on it
C14_NoLostCounterUpdate ==
  (\A p \in Procs : inflight[p] = Idle)
    => \A c \in Counters : stats[c] = performed[c]

\* a get resumed and counted while another get, begun before it, was still
\* suspended; all increments are in the counters
C14_Witness ==
  /\ \E p \in Procs : inflight[p].kind = "get" /\ inflight[p].atCall # stats
  /\ \A c \in Counters : stats[c] = performed[c]

\* C15: every call of resolve or refresh eventually returns, whichever
\* collaborator fails to respond
C15_EveryCallReturns == (pc # "idle") ~> (pc = "idle")

\* getTrendingTopics waits for a Redis command that has not been settled
C15_Witness == pc = "called" /\ call.redis /\ useRedis

(***************************************************************************)
(* Properties of parseWebSearchResponse.  parseIn is the call, parseOut    *)
(* what it returned.                                                       *)
(***************************************************************************)
Parsed == parseOut # NotParsed /\ parseIn.content.kind = "text"

\* what the topics say, without their search links
Stories(topics) ==
  [i \in 1..Len(topics) |-> [title |-> topics[i].title, summary |-> topics[i].summary]]

\* the topics a sequence of parsed objects stands for
TopicsOf(objects) ==
  LET valid == validTopics(objects) IN
  [i \in 1..Len(valid) |-> TrendingTopic(trim(valid[i].title), trim(valid[i].summary), "title")]

\* the objects of a line of JSON as JSON.parse reads each of them
ObjectsIn(json) ==
  LET objects == SelectSeq(json, LAMBDA p : p.kind = "object") IN
  [i \in 1..Len(objects) |->
     [title |-> objects[i].title,
      summary |-> unescape(objects[i].summary, objects[i].quotes)]]

\* an array cut in the middle of an object: neither the object nor the array
\* is closed
TruncatedArray(content) ==
  /\ content.json # <<>>
  /\ content.json[Len(content.json)].kind = "partial"
  /\ ~content.json[Len(content.json)].bracket

FromRawJson(topic) == topic.title.id = <<"raw json">> \/ topic.summary.id = <<"raw json">>

\* C16: for a JSON array cut in the middle of an object, parse returns
\* exactly the complete valid objects before the cut, in their order, and no
\* topic made of the partial object or of raw JSON text
C16_TruncatedArrayYieldsCompleteObjects ==
  (Parsed /\ TruncatedArray(parseIn.content))
    => /\ Stories(parseOut.topics) = Stories(TopicsOf(ObjectsIn(parseIn.content.json)))
       /\ \A i \in 1..Len(parseOut.topics) : ~FromRawJson(parseOut.topics[i])

\* parse has returned for an array cut after a complete valid object
C16_Witness ==
  /\ Parsed
  /\ TruncatedArray(parseIn.content)
  /\ Len(TopicsOf(ObjectsIn(parseIn.content.json))) > 0

ExtractionStrategies == {"direct", "repair", "salvage", "text", "mining"}

\* C17: whichever strategy produced it, no topic parse returns has a title
\* of at most 5 characters or a summary of at most 10
C17_ReturnedTopicsAreValid ==
  (Parsed /\ parseOut.strategy \in ExtractionStrategies)
    => \A i \in 1..Len(parseOut.topics) :
         parseOut.topics[i].title.len > 5 /\ parseOut.topics[i].summary.len > 10

\* an extraction strategy has returned more than one topic
C17_Witness ==
  /\ Parsed
  /\ parseOut.strategy \in ExtractionStrategies
  /\ Len(parseOut.topics) > 1

\* C18: parse never returns more than maxResults topics
C18_AtMostMaxResults ==
  parseOut # NotParsed => Len(parseOut.topics) <= parseIn.maxResults

\* parse has returned for a text that holds more valid objects than maxResults
C18_Witness ==
  /\ Parsed
  /\ Len(TopicsOf(ObjectsIn(parseIn.content.json))) > parseIn.maxResults

\* what each strategy yields for a text when it is tried on its own:
\* JSON.parse of the cleaned match and the filter,
directArrayExtraction(content) ==
  LET match == jsonPatternMatch(content.json)
      parsed == JSONparseArray(cleanJson(match))
  IN IF match = NoMatch \/ parsed.threw THEN <<>> ELSE TopicsOf(parsed.value)

\* the same on the repaired match, if the match is found truncated,
truncationRepair(content) ==
  LET match == jsonPatternMatch(content.json)
      parsed == JSONparseArray(repairTruncatedJson(cleanJson(match)))
  IN IF match = NoMatch \/ ~isTruncated(cleanJson(match)) \/ parsed.threw
     THEN <<>> ELSE TopicsOf(parsed.value)

\* and the salvage of the match
corruptedJsonSalvage(content) ==
  LET match == jsonPatternMatch(content.json) IN
  IF match = NoMatch THEN <<>> ELSE extractValidObjectsFromCorruptedJson(match)

StrategyYields(content, keyword, maxResults) ==
  << directArrayExtraction(content), truncationRepair(content),
     corruptedJsonSalvage(content), textExtraction(content, maxResults),
     aggressiveTextMining(content, maxResults), <<genericTopic(keyword)>> >>

YieldsValidTopic(topics) ==
  \E i \in 1..Len(topics) : topics[i].title.len > 5 /\ topics[i].summary.len > 10

\* C19: parse returns the output of the first strategy, in the order direct
\* array extraction, truncation repair, corrupted-JSON salvage, structured
\* text extraction, sentence mining, generic fallback, that yields at least
\* one valid topic
C19_FirstYieldingStrategyWins ==
  Parsed =>
    LET yields == StrategyYields(parseIn.content, parseIn.keyword, parseIn.maxResults)
        first == CHOOSE i \in 1..Len(yields) :
                   YieldsValidTopic(yields[i]) /\ \A j \in 1..(i - 1) : ~YieldsValidTopic(yields[j])
    IN Stories(parseOut.topics) = Stories(yields[first])

\* parse has returned the output of a strategy after direct array extraction
C19_Witness ==
  /\ Parsed
  /\ parseOut.strategy \in {"repair", "salvage", "text", "mining", "generic"}
  /\ Len(parseOut.topics) > 0

(***************************************************************************)
(* Properties of the fetch strategy.  fetchIn is the call of               *)
(* OpenAIService.getTrendingTopics, fetchOut the provider calls it makes.  *)
(***************************************************************************)
Fetched == fetchOut # NotFetched

\* the sum of the requests' maxResults, every request asking for
\* fetchIn.maxResults topics
totalTopics == Len(fetchIn.keywords) * fetchIn.maxResults
estimatedTokens == totalTopics * 100

\* all the requests go into one provider call
Batched == fetchOut = <<ProviderCall(fetchIn.keywords, fetchIn.maxResults)>>

FiveRequestsOf(maxResults) ==
  Fetched /\ Len(fetchIn.keywords) = 5 /\ fetchIn.maxResults = maxResults

BatchFailed ==
  \/ fetchIn.reply.kind \in {"prose", "garbled"}
  \/ /\ fetchIn.reply.kind = "array"
     /\ \E i \in 1..Len(fetchIn.reply.items) :
          fetchIn.reply.items[i].fields # {"keyword", "topics"}

\* what the batch fetch answered
BatchOutcome == fetchOut[1]

\* a result holds a topic of the batch reply
UsesBatchItem(data) ==
  \E j \in 1..Len(data.topics) : data.topics[j].title \in BatchTitles

IndividualCallsFollow ==
  /\ Len(BatchOutcome.calls) = 1 + Len(fetchIn.keywords)
  /\ \A i \in 1..Len(fetchIn.keywords) :
       BatchOutcome.calls[1 + i] = ProviderCall(<<fetchIn.keywords[i]>>, maxResultsPerKeyword)

\* C22: when the batch reply fails to parse or an item of it lacks its keyword
\* or its topics, the batch call is followed by one call per requested
\* keyword (1 + N calls) and no item of the batch is in the response
C22_FailedBatchFallsBackToIndividual ==
  (Fetched /\ BatchFailed)
    => /\ IndividualCallsFollow
       /\ \A i \in 1..Len(BatchOutcome.data) : ~UsesBatchItem(BatchOutcome.data[i])

\* a batch fetch has returned for a reply whose array parsed and holds an item
\* without its keyword
C22_Witness ==
  /\ Fetched
  /\ fetchIn.reply.kind = "array"
  /\ \E i \in 1..Len(fetchIn.reply.items) :
       "keyword" \notin fetchIn.reply.items[i].fields

\* the refresh requests of a client on a day that the limiter let pass
PassedOn(clientIp, today) ==
  {i \in 1..Len(refreshLog) :
     refreshLog[i] = Handled(clientIp, today, "next")}

\* C23: with the limiter enabled, at most manualRefreshLimit refresh requests
\* of one client pass on one calendar day, and a request of a client who had
\* manualRefreshLimit requests pass that day is answered 429
C23_AtMostLimitPassPerDay ==
  manualRefreshEnabled =>
    \A clientIp \in ClientIps, today \in 0..MaxDay :
      /\ Cardinality(PassedOn(clientIp, today)) <= manualRefreshLimit
      /\ \A i \in 1..Len(refreshLog) :
           (/\ refreshLog[i].clientIp = clientIp
            /\ refreshLog[i].today = today
            /\ Cardinality({j \in PassedOn(clientIp, today) : j < i}) = manualRefreshLimit)
             => refreshLog[i].answer = "429"

\* a client had manualRefreshLimit requests pass and a further one answered
\* 429 on one day, and a request of the same client passed on the next day
C23_Witness ==
  /\ manualRefreshEnabled
  /\ \E clientIp \in ClientIps, today \in 0..(MaxDay - 1) :
       /\ Cardinality(PassedOn(clientIp, today)) = manualRefreshLimit
       /\ \E i \in 1..Len(refreshLog) :
            refreshLog[i] = Handled(clientIp, today, "429")
       /\ PassedOn(clientIp, today + 1) # {}

\* the titles of the canned topics: of a timed-out call, of a text nothing
\* could be parsed from, of a failed provider, of a failed fetch
FallbackTitles ==
  {"Latest Updates", "Current Developments", "Unable to fetch", "Topics Unavailable"}

\* a result that holds a canned topic instead of the provider's topics
IsFallback(data) ==
  \E j \in 1..Len(data.topics) : data.topics[j].title \in FallbackTitles

\* C24: resolve and refresh hand to the cache only results of successfully
\* resolved keywords, so no lookup is answered with a fallback result
C24_FallbackNeverStored ==
  /\ \A k \in CacheKeys :
       (lastSet[k].kind = "set" /\ lastSet[k].by \in ResolveOps \cup RefreshOps)
         => ~IsFallback(lastSet[k].data)
  /\ (response.op \in LookupOps /\ response.status = "ok")
       => \A i \in response.hits : ~IsFallback(response.values[i])

\* a lookup is answered from the cache with the canned topic of a call that
\* had timed out
C24_Witness ==
  /\ response.op \in LookupOps
  /\ response.status = "ok"
  /\ \E i \in response.hits :
       response.values[i].topics = getFallbackTopics(response.values[i].keyword)

\* the request's maxResults, clamped into the configured range
ClampedMaxResults ==
  Min(Max(fetchIn.maxResults, minResultsPerKeyword), maxResultsPerKeyword)

FetchedResults(j) ==
  {k \in 1..Len(response.results) :
     /\ response.results[k].keyword = Requested[response.uncached[j]]
     /\ ~response.results[k].cached}

C27_OneBackendForLife ==
  \A k \in CacheKeys : lastSet[k].kind = "set" => lastSet[k].redis = useRedis

\* a record was written to node-cache and is still held there, and a later
\* lookup of its key, made once Redis was connected, found nothing
C27_Witness ==
  /\ useRedis
  /\ response.op = "getCachedTopics"
  /\ response.status = "ok"
  /\ \E i \in 1..Len(Requested) :
       LET k == getCacheKey(Requested[i]) IN
       /\ lastSet[k].kind = "set"
       /\ ~lastSet[k].redis
       /\ lastSet[k].at < response.checkAt
       /\ nodeCacheGet(nodeCache, k, response.checkAt) # Null
       /\ response.values[i] = Null

\* the last thing done to key k was an invalidation the backend took
Invalidated(k) == lastSet[k].kind = "deleted" /\ lastSet[k].accepted

\* a get of every keyword of key k is answered absent
Absent(k) ==
  \A keyword \in Keywords :
    getCacheKey(keyword) = k => CacheService_get(CS, now, keyword, FALSE).value = Null

\* a step that invalidates the one key k and no other
InvalidatesOnly(k) ==
  /\ lastSet'[k].kind = "deleted"
  /\ lastSet'[k].by = "clearCacheByKeyword"
  /\ lastSet'[k] # lastSet[k]

C29_HitCarriesRequestedKeyword ==
  (response.op \in ResolveOps /\ response.status = "ok")
    => \A i \in response.hits :
         /\ response.values[i].keyword = Requested[i]
         /\ \E k \in 1..Len(response.results) :
              response.results[k].cached /\ response.results[k].keyword = Requested[i]

\* resolve served, for a request of 'ai', the record written for 'AI'
C29_Witness ==
  /\ response.op \in ResolveOps
  /\ response.status = "ok"
  /\ \E i \in response.hits :
       /\ Requested[i] = KwLowerAi
       /\ response.values[i].keyword = KwUpperAi
       /\ \E k \in 1..Len(response.results) : response.results[k] = response.values[i]

\* the lookup finds, for every key a resolve wrote last and within the TTL,
\* the record that resolve wrote, as a hit and with no provider call
ServesResolved(lookup) ==
  \A i \in 1..Len(lookup.sections) :
    LET s == lastSet[getCacheKey(lookup.sections[i].keyword)]
        cacheRetention == lookup.sections[i].cacheRetention
    IN (/\ s.kind = "set"
        /\ s.by \in ResolveOps
        /\ s.accepted
        /\ lookup.checkAt - s.at < s.ttl * 1000
        /\ lookup.checkAt - s.at < AppliedTtlSeconds(cacheRetention) * 1000)
         => /\ i \in lookup.hits
            /\ i \notin Range(lookup.uncached)
            /\ lookup.values[i].topics = s.data.topics
            /\ lookup.values[i].cached

\* C30: once resolve has returned a freshly fetched keyword, its cache write
\* is done: a cached-only lookup or a resolve of the keyword that follows
\* within the TTL finds it as a hit, with the same topics and cached = true,
\* and fetches nothing for it
C30_WriteDoneWhenResolveReturns ==
  /\ (pc = "fetching" /\ call.op \in ResolveOps) => ServesResolved(call)
  /\ (response.op = "getCachedTopics" /\ response.status = "ok")
       => ServesResolved(response)
  /\ (response.op \in ResolveOps /\ response.status = "ok" /\ response.uncached = <<>>)
       => ServesResolved(response)

\* a resolve within the retention an earlier resolve asked for finds the
\* keyword gone from the store and fetches it again
C30_Witness ==
  /\ pc = "fetching"
  /\ call.op \in ResolveOps
  /\ \E i \in 1..Len(call.sections) :
       LET s == lastSet[getCacheKey(call.sections[i].keyword)] IN
       /\ s.kind = "set"
       /\ s.by \in ResolveOps
       /\ s.accepted
       /\ call.checkAt - s.at < s.ttl * 1000
       /\ call.checkAt - s.at < AppliedTtlSeconds(call.sections[i].cacheRetention) * 1000
       /\ call.values[i] = Null
       /\ i \in Range(call.uncached)

====
